---------------------------- MODULE Spec2Model ----------------------------
(***************************************************************************)
(* Model of the serial telemetry session engine of FreeFlightSequencer's   *)
(* GUI (src/gui): the application detector (core/tab_manager.py), the      *)
(* FlightSequencer parameter store and flight-record download              *)
(* (tabs/flight_sequencer_tab.py) and the connection lifecycle             *)
(* (gui/multi_tab_gui.py, communication/simple_serial.py).                 *)
(*                                                                         *)
(* Text is modelled as TLA+ strings, read one character at a time with     *)
(* SubSeq; a Python regular expression is a sequence of items interpreted  *)
(* by a backtracking matcher that follows re's search order.               *)
(***************************************************************************)
EXTENDS Integers, Sequences, FiniteSets, TLC

(***************************************************************************)
(* Characters and Python str methods                                       *)
(***************************************************************************)
Char(s, i) == SubSeq(s, i, i)

UpperStr == "ABCDEFGHIJKLMNOPQRSTUVWXYZ"
LowerStr == "abcdefghijklmnopqrstuvwxyz"
DigitStr == "0123456789"

CharsOf(s) == { Char(s, i) : i \in 1..Len(s) }

UpperSet == CharsOf(UpperStr)
LowerSet == CharsOf(LowerStr)
Digit == CharsOf(DigitStr)
Letter == UpperSet \cup LowerSet
\* \s of re (str patterns): space, \t, \n, \r, \f, \v; also what str.strip() removes
Space == {" ", "\t", "\n", "\r", "\f"}
\* \w of re
WordChar == Letter \cup Digit \cup {"_"}

IndexIn(str, c) == CHOOSE i \in 1..Len(str) : Char(str, i) = c

LowerChar(c) == IF c \in UpperSet THEN Char(LowerStr, IndexIn(UpperStr, c)) ELSE c
UpperChar(c) == IF c \in LowerSet THEN Char(UpperStr, IndexIn(LowerStr, c)) ELSE c

\* the concatenation of the strings seq[lo], ..., seq[hi]
RECURSIVE Flatten(_, _, _)
Flatten(seq, lo, hi) ==
    IF lo > hi THEN ""
    ELSE IF lo = hi THEN seq[lo]
    ELSE LET mid == (lo + hi) \div 2
         IN Flatten(seq, lo, mid) \o Flatten(seq, mid + 1, hi)

\* str.lower(), str.upper()
Lower(s) == Flatten([i \in 1..Len(s) |-> LowerChar(Char(s, i))], 1, Len(s))
Upper(s) == Flatten([i \in 1..Len(s) |-> UpperChar(Char(s, i))], 1, Len(s))

\* s[i:i+len(t)] == t   (1-based i)
HasAt(s, i, t) == /\ i + Len(t) - 1 <= Len(s)
                  /\ SubSeq(s, i, i + Len(t) - 1) = t

\* str.startswith(t)
StartsWith(s, t) == HasAt(s, 1, t)

\* t in s
Contains(s, t) == \E i \in 1..(Len(s) + 1) : HasAt(s, i, t)

SetMin(S) == CHOOSE x \in S : \A y \in S : x <= y
SetMax(S) == CHOOSE x \in S : \A y \in S : y <= x

\* str.strip()
Strip(s) ==
    LET keep == { i \in 1..Len(s) : Char(s, i) \notin Space }
    IN IF keep = {} THEN "" ELSE SubSeq(s, SetMin(keep), SetMax(keep))

\* str.split(sep) for a one-character separator: always at least one part
Split(s, sep) ==
    LET at == { i \in 1..Len(s) : Char(s, i) = sep }
        n == Cardinality(at)
        pos(k) == CHOOSE p \in at : Cardinality({ q \in at : q < p }) = k - 1
    IN [k \in 1..(n + 1) |->
          SubSeq(s, IF k = 1 THEN 1 ELSE pos(k - 1) + 1,
                    IF k = n + 1 THEN Len(s) ELSE pos(k) - 1)]

\* s.replace('\r\n', '\n').replace('\r', '\n'): a "\r" before a "\n" is dropped,
\* every other "\r" becomes "\n"
NormalizeLineEndings(s) ==
    Flatten([i \in 1..Len(s) |->
               IF Char(s, i) /= "\r" THEN Char(s, i)
               ELSE IF i < Len(s) /\ Char(s, i + 1) = "\n" THEN "" ELSE "\n"],
            1, Len(s))

(***************************************************************************)
(* Regular expressions (Python re, str patterns)                           *)
(*                                                                         *)
(* A regex is a sequence of items.  A "set" item matches between min and   *)
(* max characters (max = -1: unbounded) that are in cs (neg: not in cs),   *)
(* greedily unless lazy; "open"/"close" delimit capture group g; an "alt"  *)
(* item tries its alternatives in order.  The matcher explores the         *)
(* choices in the order of re's backtracking, so the first match found is  *)
(* the match re.search() returns.                                          *)
(***************************************************************************)
MaxGroups == 3

One(cs)      == [t |-> "set", cs |-> cs, neg |-> FALSE, min |-> 1, max |-> 1, lazy |-> FALSE]
Star(cs)     == [t |-> "set", cs |-> cs, neg |-> FALSE, min |-> 0, max |-> -1, lazy |-> FALSE]
Plus(cs)     == [t |-> "set", cs |-> cs, neg |-> FALSE, min |-> 1, max |-> -1, lazy |-> FALSE]
PlusNot(cs)  == [t |-> "set", cs |-> cs, neg |-> TRUE, min |-> 1, max |-> -1, lazy |-> FALSE]
\* "." matches anything but a newline
AnyStar      == [t |-> "set", cs |-> {"\n"}, neg |-> TRUE, min |-> 0, max |-> -1, lazy |-> FALSE]
AnyStarLazy  == [t |-> "set", cs |-> {"\n"}, neg |-> TRUE, min |-> 0, max |-> -1, lazy |-> TRUE]
Open(g)      == [t |-> "open", g |-> g]
Close(g)     == [t |-> "close", g |-> g]
Alt(alts)    == [t |-> "alt", alts |-> alts]

\* a literal under re.IGNORECASE, and a case-sensitive literal
LitI(str) == << [t |-> "lit", s |-> str, ci |-> TRUE] >>
LitS(str) == << [t |-> "lit", s |-> str, ci |-> FALSE] >>

NoMatch == [ok |-> FALSE]
NoCaps == [g \in 1..MaxGroups |-> <<0, 0>>]

ItemHas(it, c) == IF it.neg THEN c \notin it.cs ELSE c \in it.cs

\* the literal of item it stands at position i of s
LitAt(it, s, i) ==
    /\ i + Len(it.s) - 1 <= Len(s)
    /\ \A j \in 1..Len(it.s) :
          IF it.ci THEN LowerChar(Char(s, i + j - 1)) = LowerChar(Char(it.s, j))
          ELSE Char(s, i + j - 1) = Char(it.s, j)

\* how many characters from position i on the item can take
RunLen(it, s, i) ==
    LET lim == IF it.max = -1 \/ it.max > Len(s) - i + 1 THEN Len(s) - i + 1 ELSE it.max
    IN SetMax({ n \in 0..lim : \A j \in 0..(n - 1) : ItemHas(it, Char(s, i + j)) })

RECURSIVE MatchAt(_, _, _, _, _)
RECURSIVE TryAlts(_, _, _, _, _, _, _)

\* the first match, in re's backtracking order, of items k.. of pat at
\* position i of s, or NoMatch
MatchAt(pat, k, s, i, caps) ==
    IF k > Len(pat) THEN [ok |-> TRUE, end |-> i, caps |-> caps]
    ELSE LET it == pat[k] IN
         CASE it.t = "open"  -> MatchAt(pat, k + 1, s, i, [caps EXCEPT ![it.g] = <<i, 0>>])
           [] it.t = "close" -> MatchAt(pat, k + 1, s, i, [caps EXCEPT ![it.g] = <<caps[it.g][1], i>>])
           [] it.t = "alt"   -> TryAlts(pat, k, s, i, caps, it.alts, 1)
           [] it.t = "lit"   -> IF LitAt(it, s, i)
                                THEN MatchAt(pat, k + 1, s, i + Len(it.s), caps)
                                ELSE NoMatch
           [] it.t = "set"   ->
                \* the repetition counts that let the rest match: a greedy item
                \* takes the largest, a lazy one the smallest
                LET run == RunLen(it, s, i)
                    good == { n \in it.min..run : MatchAt(pat, k + 1, s, i + n, caps).ok }
                IN IF good = {} THEN NoMatch
                   ELSE MatchAt(pat, k + 1, s,
                                i + (IF it.lazy THEN SetMin(good) ELSE SetMax(good)), caps)

TryAlts(pat, k, s, i, caps, alts, a) ==
    IF a > Len(alts) THEN NoMatch
    ELSE LET r == MatchAt(alts[a] \o SubSeq(pat, k + 1, Len(pat)), 1, s, i, caps) IN
         IF r.ok THEN r ELSE TryAlts(pat, k, s, i, caps, alts, a + 1)

\* re.search(pat, s): the leftmost match
Search(pat, s) ==
    LET starts == { i \in 1..(Len(s) + 1) : MatchAt(pat, 1, s, i, NoCaps).ok }
    IN IF starts = {} THEN NoMatch ELSE MatchAt(pat, 1, s, SetMin(starts), NoCaps)

Matches(pat, s) == \E i \in 1..(Len(s) + 1) : MatchAt(pat, 1, s, i, NoCaps).ok

\* match.group(g) of a group that took part in the match
Group(m, s, g) == SubSeq(s, m.caps[g][1], m.caps[g][2] - 1)
\* match.group(g) is not None
HasGroup(m, g) == m.caps[g][1] > 0

(***************************************************************************)
(* Python int() and float() of a str                                       *)
(*                                                                         *)
(* int(): optional surrounding whitespace, an optional sign, digits with   *)
(* single underscores between them; anything else raises ValueError.       *)
(* float(): the same with one optional "."; a float value is the pair      *)
(* <<m, e>> standing for m / 10^e with no trailing zero in m when e > 0,   *)
(* so that equal numbers are equal pairs.  Exponents, inf and nan are not  *)
(* modelled: no input of the model spells them.                            *)
(***************************************************************************)
DigitVal(c) == IndexIn(DigitStr, c) - 1

RECURSIVE DigitsOK(_, _, _)
\* digits with single underscores between them, from position i on
DigitsOK(s, i, afterDigit) ==
    IF i > Len(s) THEN afterDigit
    ELSE IF Char(s, i) \in Digit THEN DigitsOK(s, i + 1, TRUE)
    ELSE IF Char(s, i) = "_" /\ afterDigit THEN DigitsOK(s, i + 1, FALSE)
    ELSE FALSE

RECURSIVE DigitsVal(_, _, _)
DigitsVal(s, i, acc) ==
    IF i > Len(s) THEN acc
    ELSE IF Char(s, i) = "_" THEN DigitsVal(s, i + 1, acc)
    ELSE DigitsVal(s, i + 1, 10 * acc + DigitVal(Char(s, i)))

Unsigned(s) == IF Len(s) > 0 /\ Char(s, 1) \in {"-", "+"} THEN SubSeq(s, 2, Len(s)) ELSE s
Negative(s) == Len(s) > 0 /\ Char(s, 1) = "-"

\* int(s) does not raise ValueError
IsInt(s) == DigitsOK(Unsigned(Strip(s)), 1, FALSE)
\* int(s)
PyInt(s) == LET t == Strip(s)
                v == DigitsVal(Unsigned(t), 1, 0)
            IN IF Negative(t) THEN -v ELSE v

\* float(s) does not raise ValueError
IsFloat(s) ==
    LET u == Unsigned(Strip(s))
        p == Split(u, ".")
    IN CASE Len(p) = 1 -> DigitsOK(u, 1, FALSE)
         [] Len(p) = 2 -> /\ p[1] /= "" \/ p[2] /= ""
                          /\ p[1] = "" \/ DigitsOK(p[1], 1, FALSE)
                          /\ p[2] = "" \/ DigitsOK(p[2], 1, FALSE)
         [] OTHER -> FALSE

RECURSIVE Normalize(_, _)
Normalize(m, e) == IF e > 0 /\ m % 10 = 0 THEN Normalize(m \div 10, e - 1) ELSE <<m, e>>

RECURSIVE CountDigits(_, _)
CountDigits(s, i) == IF i > Len(s) THEN 0
                     ELSE (IF Char(s, i) \in Digit THEN 1 ELSE 0) + CountDigits(s, i + 1)

\* float(s)
PyFloat(s) ==
    LET t == Strip(s)
        p == Split(Unsigned(t), ".")
        frac == IF Len(p) = 2 THEN p[2] ELSE ""
        v == DigitsVal(p[1] \o frac, 1, 0)
        n == Normalize(v, CountDigits(frac, 1))
    IN IF Negative(t) THEN <<-n[1], n[2]>> ELSE n

\* the float 0.0
FloatZero == <<0, 0>>

(***************************************************************************)
(* core/tab_manager.py: application kinds and signature patterns           *)
(***************************************************************************)
FLIGHT_SEQUENCER == "FlightSequencer"
GPS_AUTOPILOT == "GpsAutopilot"
DEVICE_TEST == "DeviceTest"
UNKNOWN == "Unknown"

ApplicationType == {FLIGHT_SEQUENCER, GPS_AUTOPILOT, DEVICE_TEST, UNKNOWN}

\* variant: the table read from its end
DetectionOrderReversed == <<DEVICE_TEST, GPS_AUTOPILOT, FLIGHT_SEQUENCER>>

\* the keys of detection_patterns in the order the dict is iterated
DetectionOrder == <<FLIGHT_SEQUENCER, GPS_AUTOPILOT, DEVICE_TEST>>

\* self.detection_patterns, every pattern searched with re.IGNORECASE
detection_patterns ==
    [a \in {FLIGHT_SEQUENCER, GPS_AUTOPILOT, DEVICE_TEST} |->
      CASE a = FLIGHT_SEQUENCER -> <<
             LitI("[APP] FlightSequencer"),                              \* \[APP\] FlightSequencer
             LitI("FlightSequencer") \o <<AnyStar>> \o LitI("starting"), \* FlightSequencer.*starting
             LitI("FlightSequencer") \o <<AnyStar>> \o LitI("ready"),    \* FlightSequencer.*ready
             LitI("Motor Run Time") \o <<AnyStar, Plus(Digit)>>,         \* Motor Run Time.*\d+
             LitI("Total Flight Time") \o <<AnyStar, Plus(Digit)>>,      \* Total Flight Time.*\d+
             LitI("Phase") \o <<AnyStar>> \o LitI("COMPLETE")            \* Phase.*COMPLETE
           >>
        [] a = GPS_AUTOPILOT -> <<
             LitI("[APP] GpsAutopilot"),                                 \* \[APP\] GpsAutopilot
             LitI("GpsAutopilot") \o <<AnyStar>> \o LitI("starting"),    \* GpsAutopilot.*starting
             LitI("GpsAutopilot") \o <<AnyStar>> \o LitI("initialized"), \* GpsAutopilot.*initialized
             LitI("GPS Status Report"),                                  \* GPS Status Report
             LitI("Navigation") \o <<AnyStar>> \o LitI("datum")
                 \o <<AnyStar>> \o LitI("set"),                          \* Navigation.*datum.*set
             LitI("Control") \o <<AnyStar>> \o LitI("autonomous")
                 \o <<AnyStar>> \o LitI("mode"),                         \* Control.*autonomous.*mode
             LitI("GPS") \o <<AnyStar>> \o LitI("fix")
                 \o <<AnyStar>> \o LitI("acquired"),                     \* GPS.*fix.*acquired
             LitI("Fix Status:") \o <<AnyStar>> \o LitI("[OK]"),         \* Fix Status:.*\[OK\]
             LitI("Satellites:") \o <<AnyStar, Plus(Digit), AnyStar>>
                 \o LitI("tracked"),                                     \* Satellites:.*\d+.*tracked
             LitI("Position:") \o <<AnyStar, Plus(Digit), One({"."}), Plus(Digit), AnyStar>>
                 \o LitI("deg"),                                         \* Position:.*\d+\.\d+.*deg
             LitI("NMEA Sentences:") \o <<AnyStar, Plus(Digit)>>,        \* NMEA Sentences:.*\d+
             LitI("[GPS_RAW]"),                                          \* \[GPS_RAW\]
             LitI("[GPS_PARSE]"),                                        \* \[GPS_PARSE\]
             LitI("GPS") \o <<AnyStar>> \o LitI("ready") \o <<AnyStar>> \o LitI("for")
                 \o <<AnyStar>> \o LitI("datum"),                        \* GPS.*ready.*for.*datum
             LitI("System") \o <<AnyStar>> \o LitI("ready") \o <<AnyStar>> \o LitI("GPS")
                 \o <<AnyStar>> \o LitI("acquiring"),                    \* System.*ready.*GPS.*acquiring
             LitI("NAV") \o <<AnyStar>> \o LitI("Navigation")
                 \o <<AnyStar>> \o LitI("system")                        \* NAV.*Navigation.*system
           >>
        [] a = DEVICE_TEST -> <<
             LitI("[APP] ButtonTest"),                                   \* \[APP\] ButtonTest
             LitI("[APP] LedTest"),                                      \* \[APP\] LedTest
             LitI("[APP] ServoTest"),                                    \* \[APP\] ServoTest
             LitI("[APP] GpsTest"),                                      \* \[APP\] GpsTest
             LitI("[APP] LedButton"),                                    \* \[APP\] LedButton
             LitI("Device") \o <<AnyStar>> \o LitI("Test")
                 \o <<AnyStar>> \o LitI("Suite"),                        \* Device.*Test.*Suite
             LitI("Running") \o <<AnyStar>> \o LitI("test")
                 \o <<AnyStar, Plus(WordChar)>>,                         \* Running.*test.*\w+
             <<Alt(<< LitI("Test") \o <<AnyStar>> \o LitI("PASS"),
                      LitI("FAIL") >>)>>,                                \* Test.*PASS|FAIL
             LitI("Hardware") \o <<AnyStar>> \o LitI("validation")       \* Hardware.*validation
           >> ]

(***************************************************************************)
(* tabs/flight_sequencer_tab.py: the regexes of _update_parameter_store    *)
(***************************************************************************)
\* variant: the name, a colon, \s* and the digits, which knows no "=" between
\* name and value
ParamRegexColonOnly(name) ==
    LitI(name) \o <<One({":"}), Star(Space), Open(1), Plus(Digit), Close(1)>>

\* [:\s=]+(\d+) after a parameter's name, under re.IGNORECASE
ParamRegex(name) == LitI(name) \o <<Plus(Space \cup {":", "="}), Open(1), Plus(Digit), Close(1)>>

reMotorRunTime    == ParamRegex("Motor Run Time")
reTotalFlightTime == ParamRegex("Total Flight Time")
reMotorSpeed      == ParamRegex("Motor Speed")
reDtRetracted     == ParamRegex("DT Retracted")
reDtDeployed      == ParamRegex("DT Deployed")
reDtDwell         == ParamRegex("DT Dwell")
\* \[OK\], case-sensitive
reOK == LitS("[OK]")
\* Current Phase:\s*([A-Z_]+), re.IGNORECASE
rePhase == LitI("Current Phase:") \o <<Star(Space), Open(1), Plus(Letter \cup {"_"}), Close(1)>>
\* GPS Status:\s*([^()\n]+), re.IGNORECASE
reGpsStatus == LitI("GPS Status:") \o <<Star(Space), Open(1), PlusNot({"(", ")", "\n"}), Close(1)>>
\* (?:Flight time|Elapsed):\s*(?:(\d+)s|(\d+):(\d+)), re.IGNORECASE
reFlightTimer ==
    << Alt(<< LitI("Flight time"), LitI("Elapsed") >>), One({":"}), Star(Space),
       Alt(<< <<Open(1), Plus(Digit), Close(1)>> \o LitI("s"),
              <<Open(2), Plus(Digit), Close(2), One({":"}), Open(3), Plus(Digit), Close(3)>> >>) >>

(***************************************************************************)
(* tabs/gps_autopilot_tab.py: the regexes of _parse_navigation_data        *)
(***************************************************************************)
\* Fix Status:.*\[OK\]|GPS.*fix.*?(true|false|ok|valid), re.IGNORECASE
reGpsFix ==
    << Alt(<< LitI("Fix Status:") \o <<AnyStar>> \o LitI("[OK]"),
              LitI("GPS") \o <<AnyStar>> \o LitI("fix")
                 \o << AnyStarLazy, Open(1),
                       Alt(<< LitI("true"), LitI("false"), LitI("ok"), LitI("valid") >>),
                       Close(1) >> >>) >>
\* Satellites:\s*(\d+)|sat.*?(\d+), re.IGNORECASE
reSatellites ==
    << Alt(<< LitI("Satellites:") \o <<Star(Space), Open(1), Plus(Digit), Close(1)>>,
              LitI("sat") \o <<AnyStarLazy, Open(2), Plus(Digit), Close(2)>> >>) >>

\* the state transition messages, in the order of the if/elif chain
PhaseMarkers == <<
    [phase |-> "READY",       re |-> <<Alt(<< LitI("System ready"), LitI("ready for new flight") >>)>>],
    [phase |-> "ARMED",       re |-> LitI("System ARMED")],
    [phase |-> "MOTOR_SPOOL", re |-> <<Alt(<< LitI("LAUNCH") \o <<AnyStar>> \o LitI("Motor"),
                                              LitI("Motor spooling") >>)>>],
    [phase |-> "MOTOR_RUN",   re |-> LitI("Motor at flight speed")],
    [phase |-> "GLIDE",       re |-> LitI("Motor") \o <<AnyStar>> \o LitI("complete")
                                     \o <<AnyStar>> \o LitI("glide")],
    [phase |-> "DT_DEPLOY",   re |-> <<Alt(<< LitI("deploying DT"), LitI("Flight time complete") >>)>>],
    [phase |-> "DT_DEPLOYED", re |-> LitI("Dethermalizer DEPLOYED")],
    [phase |-> "LANDING",     re |-> LitI("flight complete")] >>

(***************************************************************************)
(* Python str() of an int and the f-string format {n:02d}                  *)
(***************************************************************************)
RECURSIVE NatToStr(_)
NatToStr(n) == IF n < 10 THEN Char(DigitStr, n + 1)
               ELSE NatToStr(n \div 10) \o Char(DigitStr, (n % 10) + 1)
IntToStr(n) == IF n < 0 THEN "-" \o NatToStr(-n) ELSE NatToStr(n)
Format02d(n) == IF 0 <= n /\ n < 10 THEN "0" \o NatToStr(n) ELSE IntToStr(n)

\* Python's None, and a value that may be None: a sequence of at most one
\* element, so that None compares with every value
None == << >>
Some(v) == << v >>
Val(o) == o[1]

(***************************************************************************)
(* core/tab_manager.py: detection                                          *)
(***************************************************************************)
\* any(re.search(pattern, message, re.IGNORECASE)) over the patterns of app
AnyPattern(app, message) ==
    \E i \in 1..Len(detection_patterns[app]) : Matches(detection_patterns[app][i], message)

\* the first application type, in dict order from k on, with a matching pattern
RECURSIVE FirstMatchingFrom(_, _)
FirstMatchingFrom(message, k) ==
    IF k > Len(DetectionOrder) THEN UNKNOWN
    ELSE IF AnyPattern(DetectionOrder[k], message) THEN DetectionOrder[k]
    ELSE FirstMatchingFrom(message, k + 1)

FirstMatchingApp(message) == FirstMatchingFrom(message, 1)

(***************************************************************************)
(* tabs/flight_sequencer_tab.py: the parameter store                       *)
(***************************************************************************)
\* self.current_flight_params as __init__ builds it
InitialFlightParams ==
    [motor_run_time |-> None, total_flight_time |-> None, motor_speed |-> None,
     current_phase |-> "UNKNOWN", gps_state |-> "UNKNOWN",
     dt_retracted |-> None, dt_deployed |-> None, dt_dwell |-> None]

\* variant: a clear that leaves the motor run time it finds
ClearedButMotorRunTime(params) ==
    [motor_run_time |-> params.motor_run_time, total_flight_time |-> None,
     motor_speed |-> None, current_phase |-> "DISCONNECTED", gps_state |-> "UNKNOWN",
     dt_retracted |-> None, dt_deployed |-> None, dt_dwell |-> None]

\* self.current_flight_params as clear_params() rebuilds it, whatever it held
ClearedFlightParams(params) ==
    [motor_run_time |-> None, total_flight_time |-> None, motor_speed |-> None,
     current_phase |-> "DISCONNECTED", gps_state |-> "UNKNOWN",
     dt_retracted |-> None, dt_deployed |-> None, dt_dwell |-> None]

\* the entry _add_history_entry appends; the wall-clock prefix "[HH:MM:SS]" of
\* the entry is left out
HistoryEntry(event_type, description) == [type |-> event_type, description |-> description]

phase_descriptions(new_phase) ==
    CASE new_phase = "READY"       -> "System ready for new flight"
      [] new_phase = "ARMED"       -> "System armed, ready for launch"
      [] new_phase = "MOTOR_SPOOL" -> "Motor spooling up for launch"
      [] new_phase = "MOTOR_RUN"   -> "Motor running at flight speed"
      [] new_phase = "GLIDE"       -> "Motor complete, entering glide phase"
      [] new_phase = "DT_DEPLOY"   -> "Deploying dethermalizer"
      [] new_phase = "DT_DEPLOYED" -> "Dethermalizer deployed"
      [] new_phase = "LANDING"     -> "Flight complete, landing phase"
      [] OTHER                     -> "Phase changed to " \o new_phase

gps_descriptions(new_gps_state) ==
    CASE new_gps_state = "AVAILABLE"    -> "GPS module detected and available"
      [] new_gps_state = "NOT_DETECTED" -> "GPS module not detected"
      [] OTHER                          -> "GPS status: " \o new_gps_state

\* int(match.group(1)) of a parameter's regex, or None without a match
MatchedInt(re, data) ==
    LET m == Search(re, data) IN IF m.ok THEN Some(PyInt(Group(m, data, 1))) ELSE None

\* the first state transition message, from marker k on, that data matches
RECURSIVE FirstMarker(_, _)
FirstMarker(data, k) ==
    IF k > Len(PhaseMarkers) THEN None
    ELSE IF Matches(PhaseMarkers[k].re, data) THEN Some(PhaseMarkers[k].phase)
    ELSE FirstMarker(data, k + 1)

\* variant: the markers first, the explicit "Current Phase: X" otherwise
NewPhaseMarkersFirst(data) ==
    LET phase_match == Search(rePhase, data)
    IN IF FirstMarker(data, 1) /= None THEN FirstMarker(data, 1)
       ELSE IF phase_match.ok THEN Some(Upper(Group(phase_match, data, 1)))
       ELSE None

\* new_phase: the explicit "Current Phase: X" first, the markers otherwise
NewPhase(data) ==
    LET phase_match == Search(rePhase, data)
    IN IF phase_match.ok THEN Some(Upper(Group(phase_match, data, 1)))
       ELSE FirstMarker(data, 1)

\* new_gps_state, or None when the line has no "GPS Status:"
NewGpsState(data) ==
    LET m == Search(reGpsStatus, data)
        gps_status == Strip(Group(m, data, 1))
    IN IF ~m.ok THEN None
       ELSE IF Contains(Lower(gps_status), "available") THEN Some("AVAILABLE")
       ELSE IF Contains(Lower(gps_status), "not detected") THEN Some("NOT_DETECTED")
       ELSE Some(Upper(gps_status))

\* the new self.current_timer, or None when the line has no flight time
NewTimer(data) ==
    LET m == Search(reFlightTimer, data)
        seconds == PyInt(Group(m, data, 1))
    IN IF ~m.ok THEN None
       ELSE IF HasGroup(m, 1)
            THEN Some(Format02d(seconds \div 60) \o ":" \o Format02d(seconds % 60))
            ELSE Some(Group(m, data, 2) \o ":" \o Group(m, data, 3))

\* s.replace(old, "") for an old that cannot overlap itself
Remove(s, old) ==
    Flatten([i \in 1..Len(s) |->
               IF \E j \in 0..(Len(old) - 1) : i - j >= 1 /\ HasAt(s, i - j, old)
               THEN "" ELSE Char(s, i)],
            1, Len(s))

\* the description of an ERROR or WARNING entry
EventMessage(data, tag) ==
    LET msg == Strip(data)
        cut == IF Len(msg) > 100 THEN SubSeq(msg, 1, 97) \o "..." ELSE msg
    IN Strip(Remove(cut, tag))

\* the entries _track_flight_events(data) appends
FlightEvents(data) ==
    (IF Contains(Lower(data), "flight records downloaded")
        THEN << HistoryEntry("DATA", "Flight data downloaded successfully") >>
     ELSE IF Contains(Lower(data), "flight records cleared")
        THEN << HistoryEntry("DATA", "Flight records cleared") >>
     ELSE << >>)
    \o (IF Matches(LitI("[ERROR]"), data)
        THEN << HistoryEntry("ERROR", EventMessage(data, "[ERROR]")) >> ELSE << >>)
    \o (IF Matches(LitI("[WARN]"), data)
        THEN << HistoryEntry("WARNING", EventMessage(data, "[WARN]")) >> ELSE << >>)

\* the dialog of the "No flight records available" reply
NoDataDialog(data) ==
    IF Contains(data, "GPS not available") THEN "No Data: GPS module not detected"
    ELSE IF Contains(data, "GPS detected but no positions recorded")
         THEN "No Data: no flight data recorded yet"
    ELSE "No Data"

\* _parse_navigation_data: the value a text gives nav_data['gps_fix'], or
\* None when the text says nothing of the fix
NewGpsFix(data) ==
    LET m == Search(reGpsFix, data) IN
    IF ~m.ok THEN None
    ELSE IF Contains(data, "[OK]") THEN Some(TRUE)
    ELSE IF HasGroup(m, 1) THEN Some(Lower(Group(m, data, 1)) \in {"true", "ok", "valid"})
    ELSE Some(FALSE)

\* _parse_navigation_data: the value a text gives nav_data['satellites']
NewSatellites(data) ==
    LET m == Search(reSatellites, data) IN
    IF ~m.ok THEN None
    ELSE Some(PyInt(IF HasGroup(m, 1) THEN Group(m, data, 1) ELSE Group(m, data, 2)))

IsNoRecords(data) == Contains(data, "No flight records available")
IsEndMarker(data) == Contains(data, "[END_FLIGHT_DATA]")

(***************************************************************************)
(* What the handlers read off one text.  The texts the specifications feed *)
(* are known in advance, so their readings are computed once.              *)
(***************************************************************************)
LineFacts(data) ==
    [data |-> data,
     app |-> FirstMatchingApp(data),
     motor_run_time |-> MatchedInt(reMotorRunTime, data),
     total_flight_time |-> MatchedInt(reTotalFlightTime, data),
     motor_speed |-> MatchedInt(reMotorSpeed, data),
     dt_retracted |-> MatchedInt(reDtRetracted, data),
     dt_deployed |-> MatchedInt(reDtDeployed, data),
     dt_dwell |-> MatchedInt(reDtDwell, data),
     ok |-> Matches(reOK, data),
     new_phase |-> NewPhase(data),
     new_gps_state |-> NewGpsState(data),
     new_timer |-> NewTimer(data),
     events |-> FlightEvents(data),
     no_records |-> IsNoRecords(data),
     no_data_dialog |-> NoDataDialog(data),
     end_marker |-> IsEndMarker(data),
     gps_fix |-> NewGpsFix(data),
     satellites |-> NewSatellites(data)]

\* the texts of the session
AppFlightSequencer == "[APP] FlightSequencer"
AppGpsAutopilot == "[APP] GpsAutopilot"
SystemArmed == "System ARMED"
PhaseReady == "Current Phase: READY"
MotorRunTimeLine(n) == "[OK] Motor Run Time = " \o IntToStr(n) \o " seconds"

SessionLines ==
    { AppFlightSequencer, AppGpsAutopilot, MotorRunTimeLine(12), SystemArmed, PhaseReady }

\* the texts of the end-to-end scenario, for several motor run times
MotorRunTimes == {0, 7, 12, 255, 65535}
ScenarioLines ==
    { AppFlightSequencer, SystemArmed } \cup { MotorRunTimeLine(n) : n \in MotorRunTimes }

\* the texts of a download
Header == "HEADER,F_1,9,true,1,10,60,165"
GpsRecord == "GPS,990,4,MOTOR_RUN,39.2,-77.19"
EndMarker == "[END_FLIGHT_DATA]"
NoRecords == "No flight records available"
\* one chunk of the serial stream that holds both lines
NoRecordsThenEnd == NoRecords \o "\r\n" \o EndMarker

DownloadLines == { Header, GpsRecord, EndMarker, NoRecordsThenEnd }

\* the answers of a recorder that has nothing to send, with their reasons
NoRecordsNoGps == "[INFO] No flight records available - GPS not available"
NoRecordsNoPositions ==
    "[INFO] No flight records available - GPS detected but no positions recorded"
NoRecordsLines == { Header, NoRecords, NoRecordsNoGps, NoRecordsNoPositions }

\* texts that report parameters: a motor run time of 0 and of 12, one that
\* names the motor run time without a number, a flight time and a motor speed
MotorRunTimeNoNumber == "[ERR] Motor Run Time = fast"
TotalFlightTimeLine == "[OK] Total Flight Time = 90 seconds"
MotorSpeedLine == "Motor Speed: 150"
StoreLines ==
    { MotorRunTimeLine(0), MotorRunTimeLine(12), MotorRunTimeNoNumber,
      TotalFlightTimeLine, MotorSpeedLine }

\* record with a newline put in after the first p characters of its 6th
\* field, the longitude
SplitLongitude(record, p) ==
    LET parts == Split(record, ",")
        before == Len(Flatten([k \in 1..5 |-> parts[k] \o ","], 1, 5))
    IN SubSeq(record, 1, before + p) \o "\n" \o SubSeq(record, before + p + 1, Len(record))

LongitudeOf(record) == Split(record, ",")[6]

\* the texts of a buffer to parse: headers of 8, 7 and 9 fields and one
\* whose duration is no integer, a record without and one with an altitude,
\* each also with a newline inside its longitude (after the sign and between
\* two digits of the one, after the first digit of the other), and a record
\* that stops after its 4th field
Header7 == "HEADER,F_2,8,true,1,11,61"
Header9 == "HEADER,F_3,7,false,2,12,62,166,x"
HeaderBad == "HEADER,F_4,9s,true,1,10,60,167"
GpsRecordAlt == "GPS,1990,5,GLIDE,39.3,77.2,12.5"
Malformed == "GPS,1,2,X"
Unconvertible == "GPS,7,x,GLIDE,39.3,77.2"
WellFormedRecords == { GpsRecord, GpsRecordAlt }
SplitRecords ==
    { [record |-> GpsRecord, at |-> p, text |-> SplitLongitude(GpsRecord, p)] : p \in 1..2 }
       \cup { [record |-> GpsRecordAlt, at |-> 1, text |-> SplitLongitude(GpsRecordAlt, 1)] }

ParseLines ==
    { Header, Header7, Header9, HeaderBad, Malformed, Unconvertible, EndMarker }
       \cup WellFormedRecords
       \cup { sr.text : sr \in SplitRecords }

\* a record with an altitude and a newline put in before the altitude
SplitAltitude == "GPS,1990,5,GLIDE,39.3,77.2,\n12.5"
\* the texts of the buffers given to the parse of the GUI and to that of the
\* test script
ScriptLines ==
    { Header, HeaderBad, GpsRecord, GpsRecordAlt, SplitAltitude, Malformed,
      SplitLongitude(GpsRecord, 1), EndMarker }

\* the texts of the GPS autopilot's navigation report
SatellitesLine(n) == "Satellites: " \o NatToStr(n)
GpsFixLine(word) == "GPS fix: " \o word
NavLines == { SatellitesLine(0), SatellitesLine(7), GpsFixLine("false"), GpsFixLine("true") }

\* what the reads of the port may give of the lines the device writes: a
\* whole line, two lines at once, or a line in two parts, cut some characters
\* before its end
CutBeforeEnd == 9
WireLines == { MotorRunTimeLine(12), MotorRunTimeLine(0), SatellitesLine(7) }
CutLines == { MotorRunTimeLine(12) }
PairLines == { MotorRunTimeLine(12), SatellitesLine(7) }
FirstPart(line) == SubSeq(line, 1, Len(line) - CutBeforeEnd)
SecondPart(line) == SubSeq(line, Len(line) - CutBeforeEnd + 1, Len(line)) \o "\n"
Chunks ==
    { line \o "\n" : line \in WireLines }
       \cup { FirstPart(line) : line \in CutLines }
       \cup { SecondPart(line) : line \in CutLines }
       \cup { first \o "\n" \o second \o "\n" : first, second \in PairLines }

\* texts that carry signatures of more than one application
FlightAndGps == "GPS Status Report: Motor Run Time 10"
FlightAndTest == "[APP] FlightSequencer Device Test Suite"
GpsAndTest == "[GPS_RAW] Hardware validation"
AllThree == "FlightSequencer ready, GPS Status Report, Hardware validation"
OverlapLines == { FlightAndGps, FlightAndTest, GpsAndTest, AllThree }

\* texts that name a phase and carry a state transition message, or carry
\* two such messages, and one that carries the last of them
PhaseAndMarker == "Current Phase: GLIDE (System ARMED)"
ArmedAndSpool == "System ARMED - Motor spooling"
RunAndReady == "Motor at flight speed, System ready"
FlightComplete == "flight complete"
PhaseLines == { PhaseAndMarker, ArmedAndSpool, RunAndReady, FlightComplete, SystemArmed }

KnownLines ==
    SessionLines \cup ScenarioLines \cup DownloadLines \cup ParseLines \cup NoRecordsLines
       \cup StoreLines \cup NavLines \cup Chunks \cup OverlapLines \cup PhaseLines
       \cup ScriptLines

FactsTable == [data \in KnownLines |-> LineFacts(data)] @@ << >>

Facts(data) == FactsTable[data]

\* seconds within which a further detection is suppressed
DebounceSeconds == 2

\* variant: a window that is closed at its end, "<= 2.0"
DebouncedInclusive(current_time, last_time) == current_time - last_time <= DebounceSeconds

\* if current_time - self.last_detection_time < 2.0: return UNKNOWN
Debounced(current_time, last_time) == current_time - last_time < DebounceSeconds

\* _detect_application(message) at current_time: the type it returns; message
\* is the reading of the text
DetectApplication(message, current_time, last_time) ==
    IF Debounced(current_time, last_time) THEN UNKNOWN ELSE message.app

\* variant: a value is stored only in a key that holds none
FirstValueKept(tab, data, key, text) ==
    IF data[key] = None \/ tab.current_flight_params[key] /= None THEN tab
    ELSE [tab EXCEPT !.current_flight_params[key] = data[key]]

\* one of the three parameters whose change is logged: the value is stored
\* when it differs, with a PARAM entry when the line carries [OK]
LoggedParam(tab, data, key, text) ==
    IF data[key] = None \/ tab.current_flight_params[key] = data[key] THEN tab
    ELSE [tab EXCEPT !.current_flight_params[key] = data[key],
                     !.flight_history = IF data.ok
                                        THEN Append(@, HistoryEntry("PARAM", text))
                                        ELSE @]

PlainParam(tab, data, key) ==
    IF data[key] = None THEN tab ELSE [tab EXCEPT !.current_flight_params[key] = data[key]]

\* variant: every recognized phase is recorded
PhaseRecognized(new_phase, last_phase) == new_phase /= None

\* the phase is recorded only when it differs from last_recorded_phase
PhaseChanges(new_phase, last_phase) ==
    new_phase /= None /\ new_phase /= last_phase

TrackPhase(tab, data) ==
    IF PhaseChanges(data.new_phase, tab.last_recorded_phase)
    THEN [tab EXCEPT !.current_flight_params.current_phase = Val(data.new_phase),
                     !.last_recorded_phase = data.new_phase,
                     !.flight_history =
                         Append(@, HistoryEntry("PHASE", phase_descriptions(Val(data.new_phase))))]
    ELSE tab

TrackGps(tab, data) ==
    IF data.new_gps_state /= None
       /\ Val(data.new_gps_state) /= tab.current_flight_params.gps_state
    THEN [tab EXCEPT !.flight_history =
                         Append(@, HistoryEntry("GPS", gps_descriptions(Val(data.new_gps_state)))),
                     !.current_flight_params.gps_state = Val(data.new_gps_state)]
    ELSE tab

TrackTimer(tab, data) ==
    IF data.new_timer = None THEN tab ELSE [tab EXCEPT !.current_timer = Val(data.new_timer)]

\* _update_parameter_store(data) on the fields of the tab; here and in the
\* handlers below data is the reading of the text
UpdateParameterStore(tab, data) ==
    LET s1 == LoggedParam(tab, data, "motor_run_time",
                  "Motor run time set to " \o IntToStr(Val(data.motor_run_time)) \o " seconds")
        s2 == LoggedParam(s1, data, "total_flight_time",
                  "Total flight time set to " \o IntToStr(Val(data.total_flight_time)) \o " seconds")
        s3 == LoggedParam(s2, data, "motor_speed",
                  "Motor speed set to " \o IntToStr(Val(data.motor_speed)))
        s4 == PlainParam(s3, data, "dt_retracted")
        s5 == PlainParam(s4, data, "dt_deployed")
        s6 == PlainParam(s5, data, "dt_dwell")
    IN TrackTimer(TrackGps(TrackPhase(s6, data), data), data)

\* _track_flight_events(data)
TrackFlightEvents(tab, data) == [tab EXCEPT !.flight_history = @ \o data.events]

(***************************************************************************)
(* tabs/flight_sequencer_tab.py: _process_downloaded_data                  *)
(***************************************************************************)
\* raw_data.split('\n') of the stripped, normalised buffer
BufferLines(buffer) == Split(NormalizeLineEndings(Strip(buffer)), "\n")

\* empty lines and control markers are skipped
IsSkipped(line) == line = "" \/ StartsWith(line, "[") \/ StartsWith(line, "DEBUG")

\* variant: only the number of fields tells that a record is incomplete
IsIncompleteByCount(line) == Len(Split(line, ",")) < 6

\* is_incomplete of a line that starts with "GPS,"
IsIncomplete(line) ==
    LET parts == Split(line, ",")
    IN IF Len(parts) < 6 THEN TRUE
       ELSE parts[5] \in {"-", ""} \/ parts[6] \in {"-", ""}

\* the while loop that builds processed_lines, from index i on
RECURSIVE MergeFrom(_, _)
MergeFrom(lines, i) ==
    IF i > Len(lines) THEN << >>
    ELSE LET line == Strip(lines[i])
         IN IF IsSkipped(line) THEN MergeFrom(lines, i + 1)
            ELSE IF StartsWith(line, "GPS,") /\ IsIncomplete(line)
                 THEN IF i + 1 <= Len(lines)
                      THEN << line \o Strip(lines[i + 1]) >> \o MergeFrom(lines, i + 2)
                      ELSE << line >> \o MergeFrom(lines, i + 1)
                 ELSE << line >> \o MergeFrom(lines, i + 1)

ProcessedLines(buffer) == MergeFrom(BufferLines(buffer), 1)

\* the int() calls of the header raise ValueError
HeaderRaises(parts) ==
    \E k \in {3, 5, 6, 7, 8} : ~IsInt(parts[k])

\* variant: the motor speed read one field early
FlightHeaderShifted(parts) ==
    [flight_id |-> parts[2],
     duration_ms |-> PyInt(parts[3]),
     gps_available |-> (parts[4] = "true"),
     position_count |-> PyInt(parts[5]),
     parameters |-> [motor_run_time |-> PyInt(parts[6]),
                     total_flight_time |-> PyInt(parts[7]),
                     motor_speed |-> PyInt(parts[7])]]

\* the flight_header dict of a HEADER line with at least 8 parts
FlightHeader(parts) ==
    [flight_id |-> parts[2],
     duration_ms |-> PyInt(parts[3]),
     gps_available |-> (parts[4] = "true"),
     position_count |-> PyInt(parts[5]),
     parameters |-> [motor_run_time |-> PyInt(parts[6]),
                     total_flight_time |-> PyInt(parts[7]),
                     motor_speed |-> PyInt(parts[8])]]

\* the conversions of a GPS record succeed
GpsConverts(parts) ==
    /\ Len(parts) >= 7 => IsFloat(parts[7])
    /\ IsInt(parts[2]) /\ IsInt(parts[3])
    /\ IsFloat(parts[5]) /\ IsFloat(parts[6])

\* variant: the altitude is never read
AltitudeDefault(parts) == FloatZero

\* altitude: the 7th part when the record has one, 0.0 otherwise
Altitude(parts) == IF Len(parts) >= 7 THEN PyFloat(parts[7]) ELSE FloatZero

\* the dict appended to gps_records
GpsFix(parts) ==
    [timestamp_ms |-> PyInt(parts[2]),
     flight_state |-> PyInt(parts[3]),
     state_name |-> parts[4],
     latitude |-> PyFloat(parts[5]),
     longitude |-> PyFloat(parts[6]),
     altitude |-> Altitude(parts)]

\* the for loop over processed_lines from index k on; raised is set when an
\* int() of a header raises, which ends the loop
RECURSIVE ParseFrom(_, _, _, _)
ParseFrom(processed, k, flight_header, gps_records) ==
    IF k > Len(processed)
    THEN [raised |-> FALSE, flight_header |-> flight_header, gps_records |-> gps_records]
    ELSE LET line == processed[k]
             parts == Split(line, ",")
         IN IF StartsWith(line, "HEADER,")
            THEN IF Len(parts) >= 8
                 THEN IF HeaderRaises(parts)
                      THEN [raised |-> TRUE, flight_header |-> flight_header,
                            gps_records |-> gps_records]
                      ELSE ParseFrom(processed, k + 1, Some(FlightHeader(parts)), gps_records)
                 ELSE ParseFrom(processed, k + 1, flight_header, gps_records)
            ELSE IF StartsWith(line, "GPS,") /\ Len(parts) >= 6 /\ GpsConverts(parts)
                 THEN ParseFrom(processed, k + 1, flight_header,
                                Append(gps_records, GpsFix(parts)))
                 ELSE ParseFrom(processed, k + 1, flight_header, gps_records)

ParseRecords(buffer) == ParseFrom(ProcessedLines(buffer), 1, None, << >>)

\* what _process_downloaded_data leaves behind: the dialog it shows and the
\* flight data it stores (None when it stores nothing)
ProcessDownloadedData(buffer) ==
    LET r == ParseRecords(buffer)
    IN IF r.raised THEN [dialog |-> "Parse Error", flight_data |-> None]
       ELSE IF r.flight_header /= None /\ r.gps_records /= << >>
            THEN [dialog |-> "Save Flight Data",
                  flight_data |-> Some([flight_header |-> Val(r.flight_header),
                                        position_records |-> r.gps_records])]
            ELSE [dialog |-> "No valid flight data", flight_data |-> None]

(***************************************************************************)
(* test_csv_fix.py: process_test_data                                      *)
(***************************************************************************)
\* lines = raw_data.split('\n') after the line endings are normalized; the
\* data is not stripped first
TestLines(raw_data) == Split(NormalizeLineEndings(raw_data), "\n")

\* the while loop of the script is that of the GUI, statement by statement
TestProcessedLines(raw_data) == MergeFrom(TestLines(raw_data), 1)

\* the conversions of a GPS record succeed: the script reads no altitude
TestGpsConverts(parts) ==
    /\ IsInt(parts[2]) /\ IsInt(parts[3])
    /\ IsFloat(parts[5]) /\ IsFloat(parts[6])

\* the dict appended to gps_records
TestGpsRecord(parts) ==
    [timestamp_ms |-> PyInt(parts[2]),
     flight_state |-> PyInt(parts[3]),
     state_name |-> parts[4],
     latitude |-> PyFloat(parts[5]),
     longitude |-> PyFloat(parts[6])]

\* the for loop over processed_lines from index k on; raised is set when an
\* int() of a header raises, which leaves the function
RECURSIVE TestParseFrom(_, _, _, _)
TestParseFrom(processed, k, flight_header, gps_records) ==
    IF k > Len(processed)
    THEN [raised |-> FALSE, flight_header |-> flight_header, gps_records |-> gps_records]
    ELSE LET line == processed[k]
             parts == Split(line, ",")
         IN IF StartsWith(line, "HEADER,")
            THEN IF Len(parts) >= 8
                 THEN IF HeaderRaises(parts)
                      THEN [raised |-> TRUE, flight_header |-> flight_header,
                            gps_records |-> gps_records]
                      ELSE TestParseFrom(processed, k + 1, Some(FlightHeader(parts)),
                                         gps_records)
                 ELSE TestParseFrom(processed, k + 1, flight_header, gps_records)
            ELSE IF StartsWith(line, "GPS,") /\ Len(parts) >= 6 /\ TestGpsConverts(parts)
                 THEN TestParseFrom(processed, k + 1, flight_header,
                                    Append(gps_records, TestGpsRecord(parts)))
                 ELSE TestParseFrom(processed, k + 1, flight_header, gps_records)

\* process_test_data(raw_data): the header and the records it returns
ProcessTestData(raw_data) == TestParseFrom(TestProcessedLines(raw_data), 1, None, << >>)

(***************************************************************************)
(* tabs/flight_sequencer_tab.py: the download session                      *)
(***************************************************************************)
\* variant: downloading_data stays as it is
SessionGoesOn(tab) == tab

\* the session is over: downloading_data is cleared before anything else
EndSession(tab) == [tab EXCEPT !.downloading_data = FALSE]

\* variant: a parse that also takes the parameters of the header into the
\* parameter store
ProcessBufferAdoptsHeader(tab) ==
    LET r == ProcessDownloadedData(tab.flight_data_buffer)
    IN [tab EXCEPT !.dialog = r.dialog,
                   !.last_flight_data = IF r.flight_data = None THEN @ ELSE r.flight_data,
                   !.current_flight_params.motor_run_time =
                       IF r.flight_data = None THEN @
                       ELSE Some(Val(r.flight_data).flight_header.parameters.motor_run_time)]

\* _process_downloaded_data on the fields of the tab
ProcessBuffer(tab) ==
    LET r == ProcessDownloadedData(tab.flight_data_buffer)
    IN [tab EXCEPT !.dialog = r.dialog,
                   !.last_flight_data = IF r.flight_data = None THEN @ ELSE r.flight_data]

\* variant: one dialog for every reason
NoReasonGiven(tab, data) ==
    IF ~tab.downloading_data THEN tab
    ELSE IF data.no_records
         THEN [EndSession(tab) EXCEPT !.dialog = "No Data"]
    ELSE LET collected == [tab EXCEPT !.flight_data_buffer = @ \o data.data \o "\n"]
         IN IF data.end_marker THEN ProcessBuffer(EndSession(collected))
            ELSE collected

\* variant: the text is collected without a newline after it
CollectedWithoutNewline(tab, data) ==
    IF ~tab.downloading_data THEN tab
    ELSE IF data.no_records
         THEN [EndSession(tab) EXCEPT !.dialog = data.no_data_dialog]
    ELSE LET collected == [tab EXCEPT !.flight_data_buffer = @ \o data.data]
         IN IF data.end_marker THEN ProcessBuffer(EndSession(collected))
            ELSE collected

\* _handle_flight_data_response(data) after its first test has found a
\* download in progress: nothing below that test reads the flag again
RespondAfterTest(tab, data) ==
    IF data.no_records
    THEN [EndSession(tab) EXCEPT !.dialog = data.no_data_dialog]
    ELSE LET collected == [tab EXCEPT !.flight_data_buffer = @ \o data.data \o "\n"]
         IN IF data.end_marker THEN ProcessBuffer(EndSession(collected))
            ELSE collected

\* _handle_flight_data_response(data)
HandleFlightDataResponse(tab, data) ==
    IF ~tab.downloading_data THEN tab
    ELSE IF data.no_records
         THEN [EndSession(tab) EXCEPT !.dialog = data.no_data_dialog]
    ELSE LET collected == [tab EXCEPT !.flight_data_buffer = @ \o data.data \o "\n"]
         IN IF data.end_marker THEN ProcessBuffer(EndSession(collected))
            ELSE collected

\* variant: a timeout callback that does nothing
DownloadNeverTimesOut(tab) == tab

\* _download_timeout()
DownloadTimedOut(tab) ==
    IF tab.downloading_data THEN [EndSession(tab) EXCEPT !.dialog = "Timeout"] ELSE tab

\* the session of the downloader, read off the fields of the tab: in progress
\* while downloading_data is set, otherwise as the last dialog tells
DownloadState(tab) ==
    IF tab.downloading_data THEN "Collecting"
    ELSE CASE tab.dialog = ""                 -> "Idle"
           [] tab.dialog = "Timeout"          -> "TimedOut"
           [] tab.dialog = "Save Flight Data" -> "Completed"
           [] OTHER                           -> "Failed"

\* handle_serial_data(data)
HandleSerialData(tab, data) ==
    TrackFlightEvents(HandleFlightDataResponse(UpdateParameterStore(tab, data), data), data)

\* the fields of the tab as __init__ leaves them; dialog is the last dialog
\* the download has shown
InitialTab ==
    [current_flight_params |-> InitialFlightParams,
     current_timer |-> "00:00",
     flight_history |-> << >>,
     last_recorded_phase |-> None,
     flight_data_buffer |-> "",
     downloading_data |-> FALSE,
     last_flight_data |-> None,
     dialog |-> ""]

\* GpsAutopilotTab.nav_data as __init__ leaves it (the keys gps_fix and
\* satellites)
InitialNavData == [gps_fix |-> FALSE, satellites |-> 0]

\* GpsAutopilotTab._parse_navigation_data(data)
ParseNavigationData(nav, data) ==
    [nav EXCEPT !.gps_fix = IF data.gps_fix /= None THEN Val(data.gps_fix) ELSE @,
                !.satellites = IF data.satellites /= None THEN Val(data.satellites) ELSE @]

(***************************************************************************)
(* core/parameter_monitor.py: ParameterMonitor.  A dict is a function from *)
(* its keys; the nested dict of test results is an object of its own,      *)
(* held by reference: objects[n] is the dict that [ref |-> n] stands for.  *)
(***************************************************************************)
EmptyDict == [k \in {} |-> ""]

\* d[key] = value
SetItem(d, key, value) == (key :> value) @@ d

Opt(cs) == [t |-> "set", cs |-> cs, neg |-> FALSE, min |-> 0, max |-> 1, lazy |-> FALSE]

\* (\d+) and (\d*\.?\d+), (-?\d*\.?\d+), ([A-Z_]+) under re.IGNORECASE
Digits(g) == << Open(g), Plus(Digit), Close(g) >>
Decimal(g) == << Open(g), Star(Digit), Opt({"."}), Plus(Digit), Close(g) >>
SignedDecimal(g) == << Open(g), Opt({"-"}), Star(Digit), Opt({"."}), Plus(Digit), Close(g) >>
Name(g) == << Open(g), Plus(Letter \cup {"_"}), Close(g) >>
OneOf(g, words) == << Open(g), Alt([k \in 1..Len(words) |-> LitI(words[k])]), Close(g) >>

\* self.parameter_patterns[app_type], in the order the dict is iterated
ParameterPatterns(app_type) ==
    CASE app_type = FLIGHT_SEQUENCER ->
           << [name |-> "motor_run_time",         \* Motor Run Time:\s*(\d+)\s*seconds?
               pat |-> LitI("Motor Run Time:") \o <<Star(Space)>> \o Digits(1)
                          \o <<Star(Space)>> \o LitI("second") \o <<Opt({"s", "S"})>>],
              [name |-> "total_flight_time",      \* Total Flight Time:\s*(\d+)\s*seconds?
               pat |-> LitI("Total Flight Time:") \o <<Star(Space)>> \o Digits(1)
                          \o <<Star(Space)>> \o LitI("second") \o <<Opt({"s", "S"})>>],
              [name |-> "motor_speed",            \* Motor Speed:\s*(\d+)
               pat |-> LitI("Motor Speed:") \o <<Star(Space)>> \o Digits(1)],
              [name |-> "current_phase",          \* Phase.*?([A-Z_]+)
               pat |-> LitI("Phase") \o <<AnyStarLazy>> \o Name(1)],
              [name |-> "flight_timer",           \* Time.*?(\d+):(\d+)
               pat |-> LitI("Time") \o <<AnyStarLazy>> \o Digits(1) \o LitS(":") \o Digits(2)],
              [name |-> "flights_completed",      \* Flight.*?(\d+)
               pat |-> LitI("Flight") \o <<AnyStarLazy>> \o Digits(1)] >>
      [] app_type = GPS_AUTOPILOT ->
           << [name |-> "orbit_radius",           \* Orbit Radius.*?(\d*\.?\d+)
               pat |-> LitI("Orbit Radius") \o <<AnyStarLazy>> \o Decimal(1)],
              [name |-> "airspeed",               \* Airspeed.*?(\d*\.?\d+)
               pat |-> LitI("Airspeed") \o <<AnyStarLazy>> \o Decimal(1)],
              [name |-> "gps_rate",               \* GPS Rate.*?(\d+)
               pat |-> LitI("GPS Rate") \o <<AnyStarLazy>> \o Digits(1)],
              [name |-> "orbit_kp",               \* Orbit Kp.*?(\d*\.?\d+)
               pat |-> LitI("Orbit Kp") \o <<AnyStarLazy>> \o Decimal(1)],
              [name |-> "track_kp",               \* Track Kp.*?(\d*\.?\d+)
               pat |-> LitI("Track Kp") \o <<AnyStarLazy>> \o Decimal(1)],
              [name |-> "track_ki",               \* Track Ki.*?(\d*\.?\d+)
               pat |-> LitI("Track Ki") \o <<AnyStarLazy>> \o Decimal(1)],
              [name |-> "roll_kp",                \* Roll Kp.*?(\d*\.?\d+)
               pat |-> LitI("Roll Kp") \o <<AnyStarLazy>> \o Decimal(1)],
              [name |-> "nav_mode",               \* Nav Mode.*?([A-Z_]+)
               pat |-> LitI("Nav Mode") \o <<AnyStarLazy>> \o Name(1)],
              [name |-> "flight_mode",            \* Flight Mode.*?([A-Z_]+)
               pat |-> LitI("Flight Mode") \o <<AnyStarLazy>> \o Name(1)],
              [name |-> "gps_fix",                \* GPS.*fix.*?(true|false|ok|valid)
               pat |-> LitI("GPS") \o <<AnyStar>> \o LitI("fix") \o <<AnyStarLazy>>
                          \o OneOf(1, <<"true", "false", "ok", "valid">>)],
              [name |-> "satellites",             \* Satellite.*?(\d+)
               pat |-> LitI("Satellite") \o <<AnyStarLazy>> \o Digits(1)],
              [name |-> "position_n",             \* North.*?(-?\d*\.?\d+)
               pat |-> LitI("North") \o <<AnyStarLazy>> \o SignedDecimal(1)],
              [name |-> "position_e",             \* East.*?(-?\d*\.?\d+)
               pat |-> LitI("East") \o <<AnyStarLazy>> \o SignedDecimal(1)],
              [name |-> "range_to_datum",         \* Range.*?(\d*\.?\d+)
               pat |-> LitI("Range") \o <<AnyStarLazy>> \o Decimal(1)],
              [name |-> "bearing_to_datum",       \* Bearing.*?(\d*\.?\d+)
               pat |-> LitI("Bearing") \o <<AnyStarLazy>> \o Decimal(1)] >>
      [] app_type = DEVICE_TEST ->
           << [name |-> "test_status",            \* Test.*?([A-Z_]+)
               pat |-> LitI("Test") \o <<AnyStarLazy>> \o Name(1)],
              [name |-> "test_result",            \* (\w+).*test.*?(pass|fail)
               pat |-> << Open(1), Plus(WordChar), Close(1), AnyStar >> \o LitI("test")
                          \o <<AnyStarLazy>> \o OneOf(2, <<"pass", "fail">>)],
              [name |-> "button_state",           \* Button.*?(pressed|released)
               pat |-> LitI("Button") \o <<AnyStarLazy>> \o OneOf(1, <<"pressed", "released">>)],
              [name |-> "gps_satellites",         \* GPS.*satellites.*?(\d+)
               pat |-> LitI("GPS") \o <<AnyStar>> \o LitI("satellites")
                          \o <<AnyStarLazy>> \o Digits(1)],
              [name |-> "servo_position",         \* Servo.*position.*?(\d+)
               pat |-> LitI("Servo") \o <<AnyStar>> \o LitI("position")
                          \o <<AnyStarLazy>> \o Digits(1)],
              [name |-> "esc_speed",              \* ESC.*speed.*?(\d+)
               pat |-> LitI("ESC") \o <<AnyStar>> \o LitI("speed")
                          \o <<AnyStarLazy>> \o Digits(1)],
              [name |-> "esc_armed",              \* ESC.*(armed|disarmed)
               pat |-> LitI("ESC") \o <<AnyStar>> \o OneOf(1, <<"armed", "disarmed">>)] >>
      [] OTHER -> << >>

StringParameters ==
    {"current_phase", "nav_mode", "flight_mode", "test_status", "button_state", "esc_armed"}

\* the value stored for a parameter that is not a test result
ParameterValue(param_name, m, line) ==
    IF param_name = "gps_fix" THEN Lower(Group(m, line, 1)) \in {"true", "ok", "valid"}
    ELSE IF param_name \in StringParameters THEN Upper(Group(m, line, 1))
    ELSE IF param_name = "flight_timer" THEN Group(m, line, 1) \o ":" \o Group(m, line, 2)
    ELSE IF Contains(Group(m, line, 1), ".") THEN PyFloat(Group(m, line, 1))
    ELSE PyInt(Group(m, line, 1))

\* the branch for test results: current_parameters['test_results'] is made
\* if it is missing, and the result is stored in that dict
TestResult(store, test_name, result) ==
    LET made == IF "test_results" \in DOMAIN store.current_parameters THEN store
                ELSE [current_parameters |->
                         SetItem(store.current_parameters, "test_results",
                                 [ref |-> Len(store.objects) + 1]),
                      objects |-> Append(store.objects, EmptyDict)]
        r == made.current_parameters["test_results"].ref
    IN [made EXCEPT !.objects[r] = SetItem(@, test_name, result)]

\* the loop of _check_for_parameters over the patterns from the k-th on;
\* store is the dict current_parameters and the objects it refers to
RECURSIVE CheckPatterns(_, _, _, _)
CheckPatterns(patterns, k, store, line) ==
    IF k > Len(patterns) THEN store
    ELSE LET m == Search(patterns[k].pat, line)
         IN IF ~m.ok THEN CheckPatterns(patterns, k + 1, store, line)
            ELSE IF patterns[k].name = "test_result"
                 THEN CheckPatterns(patterns, k + 1,
                         TestResult(store, Upper(Group(m, line, 1)), Upper(Group(m, line, 2))),
                         line)
                 ELSE CheckPatterns(patterns, k + 1,
                         [store EXCEPT !.current_parameters =
                             SetItem(@, patterns[k].name,
                                     ParameterValue(patterns[k].name, m, line))],
                         line)

\* _check_for_parameters(line)
CheckForParameters(monitor, line) ==
    IF monitor.app_type = UNKNOWN THEN monitor
    ELSE LET store == CheckPatterns(ParameterPatterns(monitor.app_type), 1,
                                    [current_parameters |-> monitor.current_parameters,
                                     objects |-> monitor.objects], line)
         IN [monitor EXCEPT !.current_parameters = store.current_parameters,
                            !.objects = store.objects]

\* set_application_type(app_type)
SetApplicationType(monitor, app_type) ==
    IF app_type /= monitor.app_type
    THEN [monitor EXCEPT !.app_type = app_type, !.current_parameters = EmptyDict]
    ELSE monitor

\* _auto_detect_app_type(line)
AutoDetectAppType(monitor, line) ==
    IF Matches(<< Alt(<< LitI("FlightSequencer"), LitI("Motor Run Time"),
                         LitI("Flight Time") \o <<AnyStar>> \o LitI("complete") >>) >>, line)
    THEN SetApplicationType(monitor, FLIGHT_SEQUENCER)
    ELSE IF Matches(<< Alt(<< LitI("GpsAutopilot"),
                              LitI("Orbit") \o <<AnyStar>> \o LitI("Radius"),
                              LitI("Nav") \o <<AnyStar>> \o LitI("Mode"),
                              LitI("GPS") \o <<AnyStar>> \o LitI("fix") >>) >>, line)
    THEN SetApplicationType(monitor, GPS_AUTOPILOT)
    ELSE IF Matches(<< Alt(<< LitI("Device") \o <<AnyStar>> \o LitI("Test"),
                              LitI("Running") \o <<AnyStar>> \o LitI("test"),
                              LitI("Test") \o <<AnyStar>> \o LitI("PASS"),
                              LitI("Test") \o <<AnyStar>> \o LitI("FAIL") >>) >>, line)
    THEN SetApplicationType(monitor, DEVICE_TEST)
    ELSE monitor

\* the loop of process_serial_data over the complete lines from the k-th on
RECURSIVE ProcessLines(_, _, _)
ProcessLines(monitor, lines, k) ==
    IF k > Len(lines) THEN monitor
    ELSE IF Strip(lines[k]) = "" THEN ProcessLines(monitor, lines, k + 1)
    ELSE ProcessLines(AutoDetectAppType(CheckForParameters(monitor, Strip(lines[k])),
                                        Strip(lines[k])),
                      lines, k + 1)

\* process_serial_data(data)
ProcessSerialData(monitor, data) ==
    LET lines == Split(monitor.buffer \o data, "\n")
    IN ProcessLines([monitor EXCEPT !.buffer = lines[Len(lines)]],
                    SubSeq(lines, 1, Len(lines) - 1), 1)

\* variant: a copy that also copies the dict of test results
GetParametersDeep(monitor) ==
    IF "test_results" \in DOMAIN monitor.current_parameters
    THEN [dict |-> SetItem(monitor.current_parameters, "test_results",
                           [ref |-> Len(monitor.objects) + 1]),
          objects |-> Append(monitor.objects,
                             monitor.objects[monitor.current_parameters["test_results"].ref])]
    ELSE [dict |-> monitor.current_parameters, objects |-> monitor.objects]

\* get_parameters(): self.current_parameters.copy(), a new dict with the
\* same values, the reference to the dict of test results among them
GetParameters(monitor) ==
    [dict |-> monitor.current_parameters, objects |-> monitor.objects]

\* clear_parameters()
ClearParameters(monitor) == [monitor EXCEPT !.current_parameters = EmptyDict, !.buffer = ""]

\* ParameterMonitor.__init__
InitialMonitor ==
    [app_type |-> UNKNOWN, buffer |-> "", current_parameters |-> EmptyDict, objects |-> << >>]

\* what a dict reads as: the dict of test results in place of its reference
Contents(d, objs) ==
    [key \in DOMAIN d |-> IF key = "test_results" THEN objs[d[key].ref] ELSE d[key]]

(***************************************************************************)
(* The state of the multi-tab GUI                                          *)
(***************************************************************************)
VARIABLES
    now,                   \* time.time(), in seconds
    is_connected,          \* SimpleSerialMonitor.is_connected: the reader thread runs
    active_app,            \* TabManager.active_app
    last_detection_time,   \* TabManager.last_detection_time
    current_app,           \* FlightCodeManager.current_app
    current_flight_params, \* FlightSequencerTab: the parameter store
    current_timer,
    flight_history,
    last_recorded_phase,
    flight_data_buffer,
    downloading_data,
    last_flight_data,
    dialog,                \* the last dialog the download has shown ("" while
                           \* the progress window is up and before any download)
    nav_data,              \* GpsAutopilotTab.nav_data
    readers,               \* how many _monitor_serial threads are alive
    held,                  \* the text a reader had read, and not yet handed over,
                           \* when disconnect() gave up waiting for it
    wire,                  \* what the device has written and no read has taken
    sent,                  \* what was written to the port, write by write, each
                           \* with the text send_line was called with
    forces,                \* history: the kinds forced
    timers,                \* the callbacks registered with after() and not yet run
    fed,                   \* history: the texts routed since construction, each
                           \* with the connection it came on and the state of
                           \* the downloader it met
    detections,            \* history: the detections reported, with their times
    connects,              \* history: how many connections were opened
    last_error,            \* SimpleSerialMonitor.last_error: None, or the kind of
                           \* the message
    connection,            \* SimpleSerialMonitor.connection: None, or the port
                           \* object, named by the number of the connection
    connected,             \* ConnectionPanel.connected
    returned,              \* history: what each connect() returned
    param_monitor,         \* a ParameterMonitor, with the dicts its values refer to
    snapshot,              \* None, or the dict the last get_parameters() returned
    calls,                 \* history: the calls made on param_monitor and on snapshot
    responding,            \* None, or the reading of the text with which a reader
                           \* is inside _handle_flight_data_response, past the
                           \* test of downloading_data
    errors                 \* history: the handlers whose exception route_message
                           \* has caught and printed, each with the text

vars == << now, is_connected, active_app, last_detection_time, current_app,
           current_flight_params, current_timer, flight_history, last_recorded_phase,
           flight_data_buffer, downloading_data, last_flight_data, dialog,
           nav_data, readers, held, wire, sent, forces, timers, fed, detections,
           connects, last_error, connection, connected, returned,
           param_monitor, snapshot, calls, responding, errors >>

readerVars == << readers, held, wire >>
portVars == << last_error, connection, connected, returned >>
serialVars == << is_connected, connects, readerVars, sent, portVars >>
detectorVars == << active_app, last_detection_time, current_app, detections, forces >>
storeVars == << current_flight_params, current_timer, last_recorded_phase >>
downloadVars == << flight_data_buffer, downloading_data, last_flight_data, dialog >>
gpsVars == << nav_data >>
monitorVars == << param_monitor, snapshot, calls >>
handlerVars == << responding, errors >>

\* the fields of the tab as one record, and their assignment from one
Tab ==
    [current_flight_params |-> current_flight_params,
     current_timer |-> current_timer,
     flight_history |-> flight_history,
     last_recorded_phase |-> last_recorded_phase,
     flight_data_buffer |-> flight_data_buffer,
     downloading_data |-> downloading_data,
     last_flight_data |-> last_flight_data,
     dialog |-> dialog]

SetTab(tab) ==
    /\ current_flight_params' = tab.current_flight_params
    /\ current_timer' = tab.current_timer
    /\ flight_history' = tab.flight_history
    /\ last_recorded_phase' = tab.last_recorded_phase
    /\ flight_data_buffer' = tab.flight_data_buffer
    /\ downloading_data' = tab.downloading_data
    /\ last_flight_data' = tab.last_flight_data
    /\ dialog' = tab.dialog

\* time.time() when the program starts: far beyond the debounce window, so
\* that a last_detection_time of 0 never suppresses a detection
StartTime == 2

\* time.sleep(2) of connect()
ConnectSettleSeconds == 2

\* after(10000, ...) of _download_flight_data
DownloadTimeoutSeconds == 10

\* after(2000, ...) of _on_connection_changed
QuerySeconds == 2

\* join(timeout=1) of disconnect()
JoinTimeoutSeconds == 1

Init ==
    /\ now = StartTime
    /\ is_connected = FALSE
    /\ active_app = UNKNOWN
    /\ last_detection_time = 0
    /\ current_app = UNKNOWN
    /\ current_flight_params = InitialTab.current_flight_params
    /\ current_timer = InitialTab.current_timer
    /\ flight_history = InitialTab.flight_history
    /\ last_recorded_phase = InitialTab.last_recorded_phase
    /\ flight_data_buffer = InitialTab.flight_data_buffer
    /\ downloading_data = InitialTab.downloading_data
    /\ last_flight_data = InitialTab.last_flight_data
    /\ dialog = InitialTab.dialog
    /\ nav_data = InitialNavData
    /\ readers = 0
    /\ held = None
    /\ wire = ""
    /\ sent = << >>
    /\ forces = << >>
    /\ timers = << >>
    /\ fed = << >>
    /\ detections = << >>
    /\ connects = 0
    /\ last_error = None
    /\ connection = None
    /\ connected = FALSE
    /\ returned = << >>
    /\ param_monitor = InitialMonitor
    /\ snapshot = None
    /\ calls = << >>
    /\ responding = None
    /\ errors = << >>

(***************************************************************************)
(* The handlers.  Those of the main window run only while no download is   *)
(* in progress, because the progress window of a download holds the grab,  *)
(* and after the callbacks that are due: a callback registered with        *)
(* after() runs as soon as the event loop is idle.                         *)
(***************************************************************************)
\* the callbacks that are due, and the one the event loop runs next: the
\* earliest, the first registered among equals
DueTimers == {i \in 1..Len(timers) : timers[i].due <= now}
NextTimer ==
    CHOOSE i \in DueTimers :
        \A j \in DueTimers : timers[i].due < timers[j].due
                             \/ (timers[i].due = timers[j].due /\ i <= j)
RemoveAt(seq, i) == SubSeq(seq, 1, i - 1) \o SubSeq(seq, i + 1, Len(seq))

\* the timeouts of the downloads requested, those that have not yet run
IsDownloadTimeout(timer) == timer.callback = "_download_timeout"
DownloadTimers == SelectSeq(timers, IsDownloadTimeout)

\* the main window takes the next user event
UserEvent == ~downloading_data /\ DueTimers = {}

\* variant: a reset that leaves the detector's timer running
ResetKeepsTimer ==
    /\ active_app' = UNKNOWN
    /\ last_detection_time' = last_detection_time

\* reset_detection()
ResetDetection ==
    /\ active_app' = UNKNOWN
    /\ last_detection_time' = 0

\* after(ms, callback): the callbacks in the order of their registration
After(seconds, callback) == Append(timers, [due |-> now + seconds, callback |-> callback])

\* str.encode('utf-8') of a str of ASCII characters, one byte each: the
\* characters from " " (32) to "[" (91), from "]" (93) to "_" (95) and from
\* "a" (97) to "~" (126), the newline and the carriage return
AsciiLow == " !\"#$%&'()*+,-./" \o DigitStr \o ":;<=>?@" \o UpperStr \o "["
AsciiMid == "]^_"
AsciiHigh == LowerStr \o "{|}~"
Ord(c) ==
    IF c = "\n" THEN 10
    ELSE IF c = "\r" THEN 13
    ELSE IF c \in CharsOf(AsciiLow) THEN 31 + IndexIn(AsciiLow, c)
    ELSE IF c \in CharsOf(AsciiMid) THEN 92 + IndexIn(AsciiMid, c)
    ELSE 96 + IndexIn(AsciiHigh, c)
Utf8(str) == [i \in 1..Len(str) |-> Ord(Char(str, i))]

\* variant: a send_line that ends the line with "\r\n"
SendLineCrLf(text, is_open, written) ==
    IF ~is_open THEN written
    ELSE Append(written, [text |-> text, bytes |-> Utf8(text) \o << 13, 10 >>])

\* send_line(text): what has been written to the port after the call, each
\* write with the text of the call that made it
SendLine(text, is_open, written) ==
    IF ~is_open THEN written
    ELSE Append(written, [text |-> text, bytes |-> Utf8(text \o "\n")])

\* send_identification_query(): the commands, in the order of the loop
IdentificationCommands == << "?", "SYS ID", "STATUS", "G" >>

RECURSIVE SendAll(_, _, _, _)
SendAll(commands, k, is_open, written) ==
    IF k > Len(commands) THEN written
    ELSE SendAll(commands, k + 1, is_open, SendLine(commands[k], is_open, written))

\* _toggle_connection while disconnected, the port opening: connect() waits
\* for the Arduino and starts a reader, _on_connection_changed(True) resets
\* the detector, registers the identification query and tells the tab
Connect ==
    /\ UserEvent
    /\ ~connected
    /\ now' = now + ConnectSettleSeconds
    /\ is_connected' = TRUE
    /\ connects' = connects + 1
    /\ ResetDetection
    /\ flight_history' = Append(flight_history,
                                HistoryEntry("CONNECTION", "Connected to Arduino"))
    /\ readers' = readers + 1
    /\ last_error' = None
    /\ connection' = Some(connects')
    /\ connected' = TRUE
    /\ returned' = Append(returned, TRUE)
    /\ timers' = Append(timers, [due |-> now' + QuerySeconds,
                                 callback |-> "send_identification_query"])
    /\ UNCHANGED << gpsVars, monitorVars, handlerVars, held, wire, sent, current_app, detections, forces, storeVars,
                    downloadVars, fed >>

\* _toggle_connection while connected: disconnect() tells the readers to
\* stop, waits for the reader it started, for waited seconds, and closes the
\* port; _on_connection_changed(False) resets the detector and tells the tab,
\* which schedules clear_params.  A reader that holds a text (inHand) has not
\* ended when the wait is over; the readers that hold none end at their next
\* turn of the loop.
Disconnecting(inHand, waited) ==
    /\ UserEvent
    /\ connected
    /\ now' = now + waited
    /\ is_connected' = FALSE
    /\ held' = IF inHand /= None THEN inHand ELSE held
    /\ readers' = IF held' /= None THEN 1 ELSE 0
    /\ wire' = ""
    /\ connection' = None
    /\ connected' = FALSE
    /\ current_app' = UNKNOWN
    /\ ResetDetection
    /\ flight_history' = Append(flight_history,
                                HistoryEntry("CONNECTION", "Disconnected from Arduino"))
    /\ timers' = Append(timers, [due |-> now', callback |-> "clear_params"])
    /\ UNCHANGED << gpsVars, monitorVars, handlerVars, connects, sent, last_error, returned, detections, forces, storeVars,
                    downloadVars, fed >>

\* the reader is between two reads and ends at once
Disconnect == Disconnecting(None, 0)

\* the reader has read a text and waits for the main loop to take its first
\* call into Tk: join(timeout=1) gives up, and the text is routed later
DisconnectLate(data) ==
    /\ held = None
    /\ Disconnecting(Some([data |-> data, conn |-> connects]), JoinTimeoutSeconds)

\* the handler of the flight sequencer tab, the first that the loop of
\* route_message calls, on the fields of that tab
FirstHandler(tab, data, upto) ==
    CASE upto = "test" -> UpdateParameterStore(tab, data)
      [] upto = "raise" -> tab
      [] OTHER -> HandleSerialData(tab, data)

\* variant: the loop over the handlers without a try of its own, so that the
\* exception of a handler leaves the loop
LaterHandlersSkipped(nav, data, upto) ==
    IF upto \in {"test", "raise"} THEN nav ELSE ParseNavigationData(nav, data)

\* for app_type, handler in self.tab_handlers.items(): try: handler(message)
\* except Exception: print(...), for the handlers after the first, on the
\* fields of the GPS autopilot tab: they are called when the first has
\* returned or raised
LaterHandlers(nav, data, upto) ==
    IF upto = "test" THEN nav ELSE ParseNavigationData(nav, data)

\* route_message(message) and what _on_serial_data_received does around it:
\* the detector first, then the handlers of the tabs.  With upto = "test" the
\* reader is followed as far as the test of downloading_data in
\* _handle_flight_data_response, which finds a download in progress; the rest
\* of the handlers is ReaderResponds.  With upto = "raise" the handler of the
\* flight sequencer tab raises in its first statement, a call into Tk.
Route(data, conn, upto) ==
    /\ LET detected == DetectApplication(Facts(data), now, last_detection_time)
       IN /\ last_detection_time' = IF detected /= UNKNOWN THEN now ELSE last_detection_time
          /\ active_app' = IF detected /= UNKNOWN THEN detected ELSE active_app
          /\ current_app' = IF detected /= UNKNOWN /\ detected /= active_app
                            THEN detected ELSE current_app
          /\ detections' = IF detected /= UNKNOWN
                           THEN Append(detections, [time |-> now, app |-> detected])
                           ELSE detections
    /\ SetTab(FirstHandler(Tab, Facts(data), upto))
    /\ nav_data' = LaterHandlers(nav_data, Facts(data), upto)
    /\ responding' = IF upto = "test" THEN Some(Facts(data)) ELSE responding
    /\ errors' = IF upto = "raise"
                 THEN Append(errors, [handler |-> FLIGHT_SEQUENCER, data |-> data])
                 ELSE errors
    /\ fed' = Append(fed, [data |-> data, conn |-> conn, met |-> DownloadState(Tab)])
    /\ UNCHANGED << forces, monitorVars >>

\* the reader threads that are in the loop of _monitor_serial, not in the
\* callback with a text disconnect() did not wait for
ReadersReading == IF held = None THEN readers ELSE readers - 1

\* _on_serial_data_received(data) on a reader thread.  The text is what
\* read() has just given the reader (source "read"), the first bytes of what
\* the device has written (source "wire"), or the text the reader held when
\* disconnect() gave up waiting for it (source "held"); that reader then
\* looks at the flags and ends, unless a connect() has set them for its
\* successor in the meantime.  Source "test" is a read whose callback is
\* followed only as far as the test of downloading_data, source "raise" a
\* read for which the handler of the flight sequencer tab raises.
Deliver(data, source) ==
    /\ CASE source = "read" -> is_connected /\ ReadersReading >= 1
         [] source = "raise" -> is_connected /\ ReadersReading >= 1
         [] source = "test" -> is_connected /\ ReadersReading >= 1 /\ downloading_data
         [] source = "wire" -> is_connected /\ ReadersReading >= 1 /\ data /= ""
                                  /\ StartsWith(wire, data)
         [] source = "held" -> held /= None /\ data = Val(held).data
    /\ Route(data, IF source = "held" THEN Val(held).conn ELSE connects,
             IF source \in {"test", "raise"} THEN source ELSE "end")
    /\ held' = IF source = "held" THEN None ELSE held
    /\ readers' = IF source = "held" /\ ~is_connected THEN readers - 1 ELSE readers
    /\ wire' = IF source = "wire" THEN SubSeq(wire, Len(data) + 1, Len(wire)) ELSE wire
    /\ UNCHANGED << now, is_connected, connects, sent, portVars, timers >>

ReceiveLine(data) == Deliver(data, "read")

\* the reader that has found a download in progress goes on in
\* _handle_flight_data_response and then through the handlers that follow
ReaderResponds ==
    /\ responding /= None
    /\ SetTab(TrackFlightEvents(RespondAfterTest(Tab, Val(responding)), Val(responding)))
    /\ nav_data' = ParseNavigationData(nav_data, Val(responding))
    /\ responding' = None
    /\ UNCHANGED << monitorVars, errors, now, serialVars, detectorVars, timers, fed >>

\* variant: a failed connect() that leaves last_error as it was
ConnectFailureSilent(monitor) ==
    [monitor EXCEPT !.connection = None, !.is_connected = FALSE]

\* connect(), the except branch: the fields of the monitor after it
ConnectFailure(monitor) ==
    [monitor EXCEPT !.last_error = Some("Connection failed"),
                    !.connection = None,
                    !.is_connected = FALSE]

\* _toggle_connection while disconnected, the port not opening:
\* serial.Serial raises, connect() returns False and the panel shows
\* "Failed to connect" with last_error
ConnectFails ==
    /\ UserEvent
    /\ ~connected
    /\ LET monitor == ConnectFailure([last_error |-> last_error, connection |-> connection,
                                      is_connected |-> is_connected])
       IN /\ last_error' = monitor.last_error
          /\ connection' = monitor.connection
          /\ is_connected' = monitor.is_connected
    /\ returned' = Append(returned, FALSE)
    /\ UNCHANGED << gpsVars, monitorVars, handlerVars, now, connects, readerVars, sent, connected, detectorVars,
                    storeVars, flight_history, downloadVars, timers, fed >>

\* _monitor_serial, the except branch: in_waiting or read() raises in a
\* reader, which notes the error while is_connected is set, and ends
ReadError ==
    /\ is_connected
    /\ ReadersReading >= 1
    /\ last_error' = IF is_connected THEN Some("Monitor error") ELSE last_error
    /\ readers' = readers - 1
    /\ UNCHANGED << gpsVars, monitorVars, handlerVars, now, is_connected, connects, held, wire, sent, connection,
                    connected, returned, detectorVars, storeVars, flight_history,
                    downloadVars, timers, fed >>

\* variant: a force that restarts the detector's timer as well
ForceClearsTimer(app_type, detector) ==
    [detector EXCEPT !.active_app = app_type, !.current_app = app_type,
                     !.last_detection_time = 0]

\* variant: the kind is set and the callback is not called
ForceWithoutNotice(app_type, detector) ==
    IF app_type /= detector.active_app
    THEN [detector EXCEPT !.active_app = app_type]
    ELSE detector

\* force_application_type(app_type): the fields of the detector and of the
\* window after the call
ForceApplicationType(app_type, detector) ==
    IF app_type /= detector.active_app
    THEN [detector EXCEPT !.active_app = app_type, !.current_app = app_type]
    ELSE detector

\* _on_tab_changed: the user selects the tab of another application than the
\* detected one and answers yes to "Override automatic detection?"
OverrideDetection(app_type) ==
    /\ UserEvent
    /\ current_app /= UNKNOWN
    /\ app_type /= current_app
    /\ LET detector == ForceApplicationType(app_type,
                           [active_app |-> active_app, current_app |-> current_app,
                            last_detection_time |-> last_detection_time])
       IN /\ active_app' = detector.active_app
          /\ current_app' = detector.current_app
          /\ last_detection_time' = detector.last_detection_time
    /\ forces' = Append(forces, app_type)
    /\ UNCHANGED << gpsVars, monitorVars, handlerVars, now, serialVars, detections, storeVars, flight_history,
                    downloadVars, timers, fed >>

\* the device writes a line, which waits in the port for the next read
DeviceWrites(line) ==
    /\ is_connected
    /\ wire' = wire \o line \o "\n"
    /\ UNCHANGED << gpsVars, monitorVars, handlerVars, now, is_connected, connects, readers, held, sent, portVars,
                    detectorVars,
                    storeVars, flight_history, downloadVars, timers, fed >>

\* FlightSequencerTab._send_command(command), for the button or the entry
\* of the serial monitor that sends the command
SendCommand(command) ==
    /\ UserEvent
    /\ is_connected
    /\ sent' = SendLine(command, is_connected, sent)
    /\ UNCHANGED << gpsVars, monitorVars, handlerVars, now, is_connected, connects, readerVars, portVars, detectorVars,
                    storeVars, flight_history, downloadVars, timers, fed >>

\* the same command when write() raises: send_line notes the error and
\* returns False
SendFails(command) ==
    /\ UserEvent
    /\ is_connected
    /\ connection /= None
    /\ last_error' = Some("Send failed")
    /\ UNCHANGED << gpsVars, monitorVars, handlerVars, now, is_connected, connects, readerVars, sent, connection,
                    connected, returned, detectorVars, storeVars, flight_history,
                    downloadVars, timers, fed >>

\* send_identification_query(), the callback _on_connection_changed registers
SendIdentificationQuery ==
    /\ DueTimers /= {}
    /\ timers[NextTimer].callback = "send_identification_query"
    /\ timers' = RemoveAt(timers, NextTimer)
    /\ sent' = SendAll(IdentificationCommands, 1, is_connected, sent)
    /\ UNCHANGED << gpsVars, monitorVars, handlerVars, now, is_connected, connects, readerVars, portVars, detectorVars,
                    storeVars, flight_history, downloadVars, fed >>

\* _download_flight_data()
DownloadFlightData ==
    /\ UserEvent
    /\ is_connected
    /\ flight_data_buffer' = ""
    /\ downloading_data' = TRUE
    /\ dialog' = ""
    /\ sent' = SendLine("D J", is_connected, sent)
    /\ timers' = After(DownloadTimeoutSeconds, "_download_timeout")
    /\ UNCHANGED << gpsVars, monitorVars, handlerVars, now, is_connected, connects, readerVars, portVars, detectorVars,
                    storeVars, flight_history, last_flight_data, fed >>

\* _clear_flight_history()
ClearFlightHistory ==
    /\ UserEvent
    /\ flight_history' = << >>
    /\ last_recorded_phase' = None
    /\ UNCHANGED << gpsVars, monitorVars, handlerVars, now, serialVars, detectorVars, current_flight_params, current_timer,
                    downloadVars, timers, fed >>

\* _download_timeout()
DownloadTimeout ==
    /\ DueTimers /= {}
    /\ timers[NextTimer].callback = "_download_timeout"
    /\ timers' = RemoveAt(timers, NextTimer)
    /\ SetTab(DownloadTimedOut(Tab))
    /\ UNCHANGED << gpsVars, monitorVars, handlerVars, now, serialVars, detectorVars, fed >>

\* clear_params(), the callback _clear_parameters schedules
ClearParams ==
    /\ DueTimers /= {}
    /\ timers[NextTimer].callback = "clear_params"
    /\ timers' = RemoveAt(timers, NextTimer)
    /\ current_flight_params' = ClearedFlightParams(current_flight_params)
    /\ current_timer' = "00:00"
    /\ UNCHANGED << gpsVars, monitorVars, handlerVars, now, serialVars, detectorVars, last_recorded_phase, flight_history,
                    downloadVars, fed >>

\* time passes, at most the given number of seconds and no further than the
\* time the next callback is due: the event loop runs a callback as soon as
\* it is due
Tick(seconds) ==
    /\ DueTimers = {}
    /\ now' = SetMin({now + seconds} \cup {timers[i].due : i \in 1..Len(timers)})
    /\ UNCHANGED << gpsVars, monitorVars, handlerVars, serialVars, detectorVars, storeVars, flight_history, downloadVars,
                    timers, fed >>

(***************************************************************************)
(* The session: connection, detection and the parameter store              *)
(***************************************************************************)
MaxFed == 3
MaxTime == 7
MaxConnects == 2

NextSession ==
    \/ connects < MaxConnects /\ now + ConnectSettleSeconds <= MaxTime /\ Connect
    \/ Disconnect
    \/ \E data \in SessionLines : Len(fed) < MaxFed /\ ReceiveLine(data)
    \/ ClearParams
    \/ SendIdentificationQuery
    \/ ClearFlightHistory
    \/ now < MaxTime /\ Tick(1)

SpecSession == Init /\ [][NextSession]_vars

(***************************************************************************)
(* The end-to-end scenario: one connection and the texts of the scenario,  *)
(* in any order and at any pace                                            *)
(***************************************************************************)
MaxScenarioFed == 3
MaxScenarioTime == 7

NextScenario ==
    \/ connects = 0 /\ Connect
    \/ \E data \in ScenarioLines : Len(fed) < MaxScenarioFed /\ ReceiveLine(data)
    \/ SendIdentificationQuery
    \/ now < MaxScenarioTime /\ Tick(1)

SpecScenario == Init /\ [][NextScenario]_vars

(***************************************************************************)
(* A download: one connection, requests, the texts of a download and the   *)
(* timeout; the clock is followed from the first request on                *)
(***************************************************************************)
MaxDownloadFed == 4
MaxDownloadTime == 14
MaxTimeouts == 2
\* the download is looked at twice in the time a timeout takes
DownloadTick == DownloadTimeoutSeconds \div 2

NextDownload ==
    \/ connects = 0 /\ Connect
    \/ Len(DownloadTimers) < MaxTimeouts /\ DownloadFlightData
    \/ \E data \in DownloadLines : Len(fed) < MaxDownloadFed /\ ReceiveLine(data)
    \/ DownloadTimeout
    \/ SendIdentificationQuery
    \/ DownloadTimers /= << >> /\ now < MaxDownloadTime /\ Tick(DownloadTick)

SpecDownload == Init /\ [][NextDownload]_vars

(***************************************************************************)
(* The download with the two threads told apart: the reader thread runs    *)
(* the handlers of a text, the main thread runs the request and the        *)
(* callbacks of after().  A text that meets a download in progress is      *)
(* handled in two steps, and the main thread may take steps in between:    *)
(* no lock is held across _handle_flight_data_response.                    *)
(***************************************************************************)
ThreadLines == { Header, GpsRecord, EndMarker, NoRecords }
MaxThreadFed == 2
MaxThreadTime == 14
MaxThreadRequests == 2

NextThreads ==
    \/ connects = 0 /\ Connect
    \/ Len(DownloadTimers) < MaxThreadRequests /\ DownloadFlightData
    \/ \E data \in ThreadLines, source \in {"read", "test"} :
          /\ responding = None /\ Len(fed) < MaxThreadFed
          /\ downloading_data <=> source = "test"
          /\ Deliver(data, source)
    \/ ReaderResponds
    \/ DownloadTimeout
    \/ SendIdentificationQuery
    \/ DownloadTimers /= << >> /\ now < MaxThreadTime /\ Tick(DownloadTick)

SpecThreads == Init /\ [][NextThreads]_vars

(***************************************************************************)
(* The parse of a downloaded buffer: one connection, one request, and the  *)
(* texts of a buffer while the download is in progress                     *)
(***************************************************************************)
MaxParseFed == 4

NextParse ==
    \/ connects = 0 /\ Connect
    \/ DownloadTimers = << >> /\ DownloadFlightData
    \/ \E data \in ParseLines :
          downloading_data /\ Len(fed) < MaxParseFed /\ ReceiveLine(data)

SpecParse == Init /\ [][NextParse]_vars

(***************************************************************************)
(* The download to its end: the texts of a download or none at all, a      *)
(* reader that ends on a read error (the device unplugged), and the clock. *)
(* A request is made only while the clock can still reach its timeout.     *)
(* The event loop runs a callback of after() once it is due, and time      *)
(* passes: these steps are taken when they stay possible.                  *)
(***************************************************************************)
LiveLines == { GpsRecord, EndMarker, NoRecords }
MaxLiveFed == 2
MaxLiveTime == 24

NextLive ==
    \/ connects = 0 /\ Connect
    \/ now + DownloadTimeoutSeconds <= MaxLiveTime /\ DownloadFlightData
    \/ \E data \in LiveLines : Len(fed) < MaxLiveFed /\ ReceiveLine(data)
    \/ ReadError
    \/ DownloadTimeout
    \/ SendIdentificationQuery
    \/ now < MaxLiveTime /\ Tick(DownloadTick)

EventLoopRuns ==
    /\ WF_vars(DownloadTimeout)
    /\ WF_vars(SendIdentificationQuery)
    /\ WF_vars(now < MaxLiveTime /\ Tick(DownloadTick))

SpecLive == Init /\ [][NextLive]_vars /\ EventLoopRuns

(***************************************************************************)
(* The handlers of the tabs, one of which may raise: texts for the flight  *)
(* sequencer tab and for the GPS autopilot tab, each handled by both, or   *)
(* with an exception in the handler that is called first                   *)
(***************************************************************************)
FanOutLines == { MotorRunTimeLine(12), SatellitesLine(7), GpsFixLine("true") }
MaxFanOutFed == 3

NextFanOut ==
    \/ connects = 0 /\ Connect
    \/ \E data \in FanOutLines, source \in {"read", "raise"} :
          Len(fed) < MaxFanOutFed /\ Deliver(data, source)

SpecFanOut == Init /\ [][NextFanOut]_vars

(***************************************************************************)
(* The buffers on which the parse of the GUI is set against that of the    *)
(* test script: one connection, one request, and the texts of a buffer     *)
(***************************************************************************)
MaxScriptFed == 3

NextScript ==
    \/ connects = 0 /\ Connect
    \/ DownloadTimers = << >> /\ DownloadFlightData
    \/ \E data \in ScriptLines :
          downloading_data /\ Len(fed) < MaxScriptFed /\ ReceiveLine(data)

SpecScript == Init /\ [][NextScript]_vars

(***************************************************************************)
(* A recorder with nothing to send: one connection, requests, and its      *)
(* answers, before or after a header                                       *)
(***************************************************************************)
MaxNoRecordsFed == 3
MaxNoRecordsRequests == 2

NextNoRecords ==
    \/ connects = 0 /\ Connect
    \/ Len(DownloadTimers) < MaxNoRecordsRequests /\ DownloadFlightData
    \/ \E data \in NoRecordsLines : Len(fed) < MaxNoRecordsFed /\ ReceiveLine(data)

SpecNoRecords == Init /\ [][NextNoRecords]_vars

(***************************************************************************)
(* The parameter store: one connection and texts that report parameters    *)
(***************************************************************************)
MaxStoreFed == 4

NextStore ==
    \/ connects = 0 /\ Connect
    \/ \E data \in StoreLines \cup NavLines : Len(fed) < MaxStoreFed /\ ReceiveLine(data)

SpecStore == Init /\ [][NextStore]_vars

(***************************************************************************)
(* The detector: connections, texts with and without a signature, the      *)
(* user's override of the detection, and a disconnection that finds the    *)
(* reader with a text in hand                                              *)
(***************************************************************************)
MaxDetectorFed == 3
MaxDetectorTime == 8
MaxDetectorConnects == 2
MaxForces == 2

DetectorLines == { AppFlightSequencer, AppGpsAutopilot, SystemArmed }

NextDetector ==
    \/ connects < MaxDetectorConnects /\ now + ConnectSettleSeconds <= MaxDetectorTime
          /\ Connect
    \/ Disconnect
    \/ \E data \in DetectorLines : Len(fed) < MaxDetectorFed /\ DisconnectLate(data)
    \/ \E data \in DetectorLines, source \in {"read", "held"} :
          (source = "held" \/ Len(fed) < MaxDetectorFed) /\ Deliver(data, source)
    \/ \E app_type \in {FLIGHT_SEQUENCER, GPS_AUTOPILOT} :
          Len(forces) < MaxForces /\ OverrideDetection(app_type)
    \/ ClearParams
    \/ SendIdentificationQuery
    \/ now < MaxDetectorTime /\ Tick(1)

SpecDetector == Init /\ [][NextDetector]_vars

(***************************************************************************)
(* The commands: one connection, the commands of the user, the request of  *)
(* a download and the identification query, while texts come in            *)
(***************************************************************************)
MaxSent == 3
MaxSendFed == 2
MaxSendTime == 7

\* "G" of _get_parameters, "STOP" of _emergency_stop
Commands == { "G", "STOP" }
SendLines == { Header, NoRecords }

NextSend ==
    \/ connects = 0 /\ Connect
    \/ \E command \in Commands : Len(sent) < MaxSent /\ SendCommand(command)
    \/ DownloadTimers = << >> /\ Len(sent) < MaxSent /\ DownloadFlightData
    \/ \E data \in SendLines : Len(fed) < MaxSendFed /\ ReceiveLine(data)
    \/ SendIdentificationQuery
    \/ now < MaxSendTime /\ Tick(1)

SpecSend == Init /\ [][NextSend]_vars

(***************************************************************************)
(* The reads: one connection, the lines the device writes, and reads that  *)
(* take from the port what has arrived, whole lines or less or more        *)
(***************************************************************************)
MaxWritten == 2
MaxChunkFed == 4

NextChunks ==
    \/ connects = 0 /\ Connect
    \/ \E line \in WireLines :
          Len(Split(wire, "\n")) <= MaxWritten /\ Len(fed) < MaxChunkFed - 1
             /\ DeviceWrites(line)
    \/ \E data \in Chunks : Len(fed) < MaxChunkFed /\ Deliver(data, "wire")

SpecChunks == Init /\ [][NextChunks]_vars

(***************************************************************************)
(* The ends of a download: one connection, one request, the texts of a     *)
(* download that parses, of one whose header does not, the answer of a     *)
(* recorder with nothing to send, the timeout, and a text that reports a   *)
(* parameter                                                               *)
(***************************************************************************)
MaxResolveFed == 4
MaxResolveTime == 14

ResolveLines == { Header, HeaderBad, GpsRecord, EndMarker, NoRecords, MotorRunTimeLine(12) }

NextResolve ==
    \/ connects = 0 /\ Connect
    \/ DownloadTimers = << >> /\ fed = << >> /\ DownloadFlightData
    \/ \E data \in ResolveLines : Len(fed) < MaxResolveFed /\ ReceiveLine(data)
    \/ DownloadTimeout
    \/ SendIdentificationQuery
    \/ DownloadTimers /= << >> /\ now < MaxResolveTime /\ Tick(DownloadTick)

SpecResolve == Init /\ [][NextResolve]_vars

(***************************************************************************)
(* The port: connections that open or fail to, reads and writes that       *)
(* raise, and disconnections                                               *)
(***************************************************************************)
MaxAttempts == 3
MaxPortFed == 1
MaxPortSent == 1
MaxPortTime == 7

PortLines == { AppFlightSequencer, SystemArmed }

NextPort ==
    \/ Len(returned) < MaxAttempts /\ now + ConnectSettleSeconds <= MaxPortTime /\ Connect
    \/ Len(returned) < MaxAttempts /\ ConnectFails
    \/ Disconnect
    \/ \E data \in PortLines : Len(fed) < MaxPortFed /\ DisconnectLate(data)
    \/ \E data \in PortLines, source \in {"read", "held"} :
          (source = "held" \/ Len(fed) < MaxPortFed) /\ Deliver(data, source)
    \/ ReadError
    \/ Len(sent) < MaxPortSent /\ SendCommand("G")
    \/ SendFails("G")
    \/ ClearParams
    \/ Len(sent) < MaxPortSent /\ SendIdentificationQuery
    \/ now < MaxPortTime /\ Tick(1)

SpecPort == Init /\ [][NextPort]_vars

(***************************************************************************)
(* The serial monitor of the mobile GUI, MobileSerialMonitor, called as a  *)
(* library: its fields is_connected, last_error, serial_port (connection)  *)
(* and read_thread (readers) take the place of SimpleSerialMonitor's.      *)
(* running is set and cleared together with is_connected.                  *)
(***************************************************************************)
\* connect(), the port opening: the fields of the monitor after it
MobileConnected(monitor, port) ==
    [monitor EXCEPT !.connection = Some(port), !.is_connected = TRUE]

\* connect(), the except branch
MobileConnectFailure(monitor) ==
    [monitor EXCEPT !.last_error = Some("Connection failed")]

Monitor == [last_error |-> last_error, connection |-> connection,
            is_connected |-> is_connected]

SetMonitor(monitor) ==
    /\ last_error' = monitor.last_error
    /\ connection' = monitor.connection
    /\ is_connected' = monitor.is_connected

\* connect() returning True: it starts a reader whatever the state
MobileConnect ==
    /\ SetMonitor(MobileConnected(Monitor, connects + 1))
    /\ connects' = connects + 1
    /\ readers' = readers + 1
    /\ returned' = Append(returned, TRUE)
    /\ UNCHANGED << gpsVars, monitorVars, handlerVars, now, held, wire, sent, connected, detectorVars, storeVars,
                    flight_history, downloadVars, timers, fed >>

\* connect() returning False: serial.Serial raises
MobileConnectFails ==
    /\ SetMonitor(MobileConnectFailure(Monitor))
    /\ returned' = Append(returned, FALSE)
    /\ UNCHANGED << gpsVars, monitorVars, handlerVars, now, connects, readerVars, sent, connected, detectorVars,
                    storeVars, flight_history, downloadVars, timers, fed >>

\* disconnect(): running and is_connected are cleared, the readers leave
\* their loops, the port is closed
MobileDisconnect ==
    /\ is_connected' = FALSE
    /\ connection' = None
    /\ readers' = 0
    /\ UNCHANGED << gpsVars, monitorVars, handlerVars, now, connects, held, wire, sent, last_error, connected, returned,
                    detectorVars, storeVars, flight_history, downloadVars, timers, fed >>

\* _read_loop, the except branch: the error is noted while running is set,
\* and the reader sleeps 0.1 s and goes round the loop again
MobileReadError ==
    /\ is_connected
    /\ readers >= 1
    /\ last_error' = Some("Read error")
    /\ UNCHANGED << gpsVars, monitorVars, handlerVars, now, is_connected, connects, readerVars, sent, connection,
                    connected, returned, detectorVars, storeVars, flight_history,
                    downloadVars, timers, fed >>

MaxMobileAttempts == 5

NextMobile ==
    \/ Len(returned) < MaxMobileAttempts /\ MobileConnect
    \/ Len(returned) < MaxMobileAttempts /\ MobileConnectFails
    \/ MobileDisconnect
    \/ MobileReadError

SpecMobile == Init /\ [][NextMobile]_vars

(***************************************************************************)
(* A ParameterMonitor and a caller that keeps what get_parameters()        *)
(* returned                                                                *)
(***************************************************************************)
MaxCalls == 4

\* what the device sends, as the reads deliver it
MonitorTexts ==
    { "Device Test Suite\n", "Servo test: PASS\n", "Servo test: FAIL\n", "Button pressed\n",
      "Button test: ", "PASS\n", "Motor Run Time: 12 seconds\n" }

\* param_monitor.process_serial_data(data)
MonitorReceives(data) ==
    /\ Len(calls) < MaxCalls
    /\ param_monitor' = ProcessSerialData(param_monitor, data)
    /\ calls' = Append(calls, "process_serial_data")
    /\ UNCHANGED << snapshot, handlerVars, gpsVars, now, serialVars, detectorVars, storeVars, flight_history,
                    downloadVars, timers, fed >>

\* param_monitor.clear_parameters()
MonitorClears ==
    /\ Len(calls) < MaxCalls
    /\ param_monitor' = ClearParameters(param_monitor)
    /\ calls' = Append(calls, "clear_parameters")
    /\ UNCHANGED << snapshot, handlerVars, gpsVars, now, serialVars, detectorVars, storeVars, flight_history,
                    downloadVars, timers, fed >>

\* params = param_monitor.get_parameters()
MonitorGetParameters ==
    /\ Len(calls) < MaxCalls
    /\ LET r == GetParameters(param_monitor)
       IN /\ snapshot' = Some(r.dict)
          /\ param_monitor' = [param_monitor EXCEPT !.objects = r.objects]
    /\ calls' = Append(calls, "get_parameters")
    /\ UNCHANGED << handlerVars, gpsVars, now, serialVars, detectorVars, storeVars, flight_history,
                    downloadVars, timers, fed >>

\* the caller: params[key] = value
CallerSetsItem(key, value) ==
    /\ Len(calls) < MaxCalls
    /\ snapshot /= None
    /\ snapshot' = Some(SetItem(Val(snapshot), key, value))
    /\ calls' = Append(calls, "snapshot changed")
    /\ UNCHANGED << param_monitor, handlerVars, gpsVars, now, serialVars, detectorVars, storeVars,
                    flight_history, downloadVars, timers, fed >>

\* the caller: params['test_results'][test_name] = result
CallerSetsTestResult(test_name, result) ==
    /\ Len(calls) < MaxCalls
    /\ snapshot /= None
    /\ "test_results" \in DOMAIN Val(snapshot)
    /\ param_monitor' = [param_monitor EXCEPT
                            !.objects[Val(snapshot)["test_results"].ref] =
                                SetItem(@, test_name, result)]
    /\ calls' = Append(calls, "snapshot changed")
    /\ UNCHANGED << snapshot, handlerVars, gpsVars, now, serialVars, detectorVars, storeVars,
                    flight_history, downloadVars, timers, fed >>

NextMonitor ==
    \/ \E data \in MonitorTexts : MonitorReceives(data)
    \/ MonitorClears
    \/ MonitorGetParameters
    \/ CallerSetsItem("button_state", "EDITED")
    \/ CallerSetsTestResult("SERVO", "EDITED")

SpecMonitor == Init /\ [][NextMonitor]_vars

(***************************************************************************)
(* Signatures of several applications in one text: one connection, texts   *)
(* with signatures of two or three applications and of one                 *)
(***************************************************************************)
MaxOverlapFed == 2
MaxOverlapTime == 8

NextOverlap ==
    \/ connects = 0 /\ Connect
    \/ \E data \in OverlapLines \cup { AppGpsAutopilot } :
          Len(fed) < MaxOverlapFed /\ ReceiveLine(data)
    \/ SendIdentificationQuery
    \/ now < MaxOverlapTime /\ Tick(1)

SpecOverlap == Init /\ [][NextOverlap]_vars

(***************************************************************************)
(* The phase of a text: one connection and texts that name a phase, carry  *)
(* state transition messages, or both                                      *)
(***************************************************************************)
MaxPhaseFed == 3

NextPhase ==
    \/ connects = 0 /\ Connect
    \/ \E data \in PhaseLines : Len(fed) < MaxPhaseFed /\ ReceiveLine(data)

SpecPhase == Init /\ [][NextPhase]_vars

(***************************************************************************)
(* What the claims speak of                                                *)
(***************************************************************************)
Last(seq) == seq[Len(seq)]

\* a text has just been routed, and which
Received == fed' /= fed
ReceivedData == Last(fed').data

NumericKeys ==
    { "motor_run_time", "total_flight_time", "motor_speed",
      "dt_retracted", "dt_deployed", "dt_dwell" }

\* a phase that no line has announced
NoPhase(phase) == phase \in {"UNKNOWN", "DISCONNECTED"}

\* get(key) returns no value, for every key of the store
AllAbsent(params) ==
    /\ \A key \in NumericKeys : params[key] = None
    /\ params.gps_state = "UNKNOWN"
    /\ NoPhase(params.current_phase)

\* the clears a disconnect has scheduled and that have not run yet
PendingClears == Cardinality({i \in 1..Len(timers) : timers[i].callback = "clear_params"})

IsPhaseEntry(entry) == entry.type = "PHASE"
PhaseEntries(history) == SelectSeq(history, IsPhaseEntry)

OnConnection == SelectSeq(fed, LAMBDA entry : entry.conn = connects)

\* the tab of a freshly constructed session after the texts from k on
RECURSIVE FreshAfter(_, _, _)
FreshAfter(tab, entries, k) ==
    IF k > Len(entries) THEN tab
    ELSE FreshAfter(HandleSerialData(tab, Facts(entries[k].data)), entries, k + 1)

SamePhase(a, b) == a = b \/ (NoPhase(a) /\ NoPhase(b))

C6_ReconnectedLikeFresh ==
    (is_connected /\ PendingClears = 0) =>
        LET fresh == FreshAfter(InitialTab, OnConnection, 1).current_flight_params
        IN /\ OnConnection = << >> => (active_app = UNKNOWN /\ last_detection_time = 0)
           /\ \A key \in NumericKeys : current_flight_params[key] = fresh[key]
           /\ current_flight_params.gps_state = fresh.gps_state
           /\ SamePhase(current_flight_params.current_phase, fresh.current_phase)

(***************************************************************************)
(* C7: a line whose recognized phase is the last recorded one changes      *)
(* neither the phase nor the phase entries of the history ("Current Phase: *)
(* READY" fed again changes nothing at all); a phase entry is added only   *)
(* for a recognized phase that differs from the last recorded one, so no   *)
(* two consecutive phase entries record the same phase.                    *)
(***************************************************************************)
NoRepeat(seq) == \A i \in 1..(Len(seq) - 1) : seq[i] /= seq[i + 1]

C7_NoDuplicatePhaseEntry ==
    [][ /\ NoRepeat(PhaseEntries(flight_history'))
        /\ Received =>
             LET recognized == Facts(ReceivedData).new_phase
                 same == recognized = None \/ recognized = last_recorded_phase
                 entry == HistoryEntry("PHASE", phase_descriptions(Val(recognized)))
             IN /\ same =>
                     /\ current_flight_params'.current_phase = current_flight_params.current_phase
                     /\ last_recorded_phase' = last_recorded_phase
                     /\ PhaseEntries(flight_history') = PhaseEntries(flight_history)
                /\ ~same =>
                     /\ current_flight_params'.current_phase = Val(recognized)
                     /\ PhaseEntries(flight_history') = Append(PhaseEntries(flight_history), entry)
                /\ (ReceivedData = PhaseReady /\ last_recorded_phase = Some("READY")) =>
                     /\ flight_history' = flight_history
                     /\ current_flight_params' = current_flight_params ]_vars

\* "Current Phase: READY" was fed twice in a row and is recorded once
C7_Witness ==
    /\ Len(fed) >= 2
    /\ fed[1].data = PhaseReady /\ fed[2].data = PhaseReady
    /\ fed[1].conn = fed[2].conn
    /\ is_connected
    /\ current_flight_params.current_phase = "READY"
    /\ Len(PhaseEntries(flight_history)) = 1

TimeoutPending(pending, time) ==
    \E i \in 1..Len(pending) :
        pending[i].callback = "_download_timeout" /\ time <= pending[i].due

Requested == ~downloading_data /\ downloading_data'

C1_TimeoutEndsSession ==
    [][ /\ Requested =>
            /\ ~Received
            /\ timers' = Append(timers, [due |-> now + 10, callback |-> "_download_timeout"])
        /\ downloading_data' => TimeoutPending(timers', now')
        /\ (downloading_data /\ ~downloading_data' /\ ~Received) =>
              (dialog' = "Timeout" /\ flight_data_buffer' = flight_data_buffer
                 /\ last_flight_data' = last_flight_data)
        /\ (DownloadState(Tab) = "TimedOut" /\ Received) =>
              /\ flight_data_buffer' = flight_data_buffer
              /\ last_flight_data' = last_flight_data
              /\ dialog' = "Timeout"
              /\ ~downloading_data'
        /\ (DownloadState(Tab) = "TimedOut" /\ ~(dialog' = "Timeout" /\ ~downloading_data'))
              => (Requested /\ flight_data_buffer' = "") ]_vars

\* a download timed out with a header collected, and the end marker that
\* came after the timeout was met by a timed-out session and left it so
C1_Witness ==
    /\ DownloadState(Tab) = "TimedOut"
    /\ flight_data_buffer = Header \o "\n"
    /\ Len(fed) = 2
    /\ fed[1].data = Header /\ fed[1].met = "Collecting"
    /\ fed[2].data = EndMarker /\ fed[2].met = "TimedOut"
    /\ last_flight_data = None

(***************************************************************************)
(* C10, as stated: a text containing the end marker that is received while *)
(* a download is in progress is collected, the buffer is parsed, and the   *)
(* session is Completed or Failed after that step, as the parse tells.     *)
(***************************************************************************)
ParsedInStep ==
    LET r == ProcessDownloadedData(flight_data_buffer')
    IN /\ flight_data_buffer' = flight_data_buffer \o ReceivedData \o "\n"
       /\ ~downloading_data'
       /\ dialog' = r.dialog
       /\ dialog' \in {"Save Flight Data", "Parse Error", "No valid flight data"}
       /\ last_flight_data' = IF r.flight_data = None THEN last_flight_data ELSE r.flight_data
       /\ (dialog' = "Save Flight Data") <=> (r.flight_data /= None)

ParseDone == fed /= << >> /\ Last(fed).data = EndMarker /\ Last(fed).met = "Collecting"

\* the texts received, and the buffer that collecting texts gives
Texts == [i \in 1..Len(fed) |-> fed[i].data]
BufferOf(texts) == Flatten([i \in 1..Len(texts) |-> texts[i] \o "\n"], 1, Len(texts))

SplitTexts == { sr.text : sr \in SplitRecords }
Unsplit(text) ==
    IF text \in SplitTexts THEN (CHOOSE sr \in SplitRecords : sr.text = text).record
    ELSE text

\* the download has left what the parse of this buffer gives
ParsedAs(buffer) ==
    LET r == ProcessDownloadedData(buffer)
    IN dialog = r.dialog /\ last_flight_data = r.flight_data

(***************************************************************************)
(* C2: a buffer of a header and well-formed records, one of which has a    *)
(* newline inside its longitude, parses to what the same buffer without    *)
(* that newline parses to: the same fixes, the longitude included.         *)
(***************************************************************************)
C2_SplitLongitudeRepaired ==
    ( /\ ParseDone
      /\ Cardinality({i \in 1..Len(fed) : Texts[i] \in SplitTexts}) = 1
      /\ \A i \in 1..Len(fed) :
            Texts[i] \in {Header, EndMarker} \cup WellFormedRecords \cup SplitTexts )
       => ParsedAs(BufferOf([i \in 1..Len(fed) |-> Unsplit(Texts[i])]))

(***************************************************************************)
(* C3: a buffer of a header, well-formed records and the record that stops *)
(* after its 4th field parses to what the buffer without that record       *)
(* parses to: the header and the other records are all there, wherever     *)
(* the malformed record sits.                                              *)
(***************************************************************************)
C3_MalformedRecordSkipped ==
    ( /\ ParseDone
      /\ \E i \in 1..Len(fed) : Texts[i] = Malformed
      /\ \A i \in 1..Len(fed) :
            Texts[i] \in {Header, EndMarker, Malformed} \cup WellFormedRecords )
       => ParsedAs(BufferOf(SelectSeq(Texts, LAMBDA text : text /= Malformed)))

(***************************************************************************)
(* C9: the header of the parsed flight is built from the last HEADER line  *)
(* of 8 fields or more that the buffer holds once split records are put    *)
(* together: flight_id, duration_ms, gps_available, position_count,        *)
(* motor_run_time and total_flight_time are its fields 2 to 7 and          *)
(* motor_speed its 8th field as an integer.  HEADER lines of fewer than 8  *)
(* fields count for nothing: a buffer with no other header gives no        *)
(* flight.  A field that is no integer where one is due fails the parse.   *)
(***************************************************************************)
HeaderFields(line) == Split(line, ",")
HeaderLines(lines) ==
    { k \in 1..Len(lines) : StartsWith(lines[k], "HEADER,") /\ Len(HeaderFields(lines[k])) >= 8 }
AllIntegers(fields) == \A k \in {3, 5, 6, 7, 8} : IsInt(fields[k])

C9_HeaderFromFields ==
    ParseDone =>
        LET lines == ProcessedLines(flight_data_buffer)
            headers == HeaderLines(lines)
        IN /\ headers = {} => (dialog = "No valid flight data" /\ last_flight_data = None)
           /\ (\E k \in headers : ~AllIntegers(HeaderFields(lines[k])))
                 => (dialog = "Parse Error" /\ last_flight_data = None)
           /\ last_flight_data /= None =>
                 /\ headers /= {}
                 /\ LET fields == HeaderFields(lines[SetMax(headers)])
                        header == Val(last_flight_data).flight_header
                    IN /\ header.parameters.motor_speed = PyInt(fields[8])
                       /\ header.flight_id = fields[2]
                       /\ header.duration_ms = PyInt(fields[3])
                       /\ header.gps_available = (fields[4] = "true")
                       /\ header.position_count = PyInt(fields[5])
                       /\ header.parameters.motor_run_time = PyInt(fields[6])
                       /\ header.parameters.total_flight_time = PyInt(fields[7])

\* a header of 8 fields, then one of 9 and a record were parsed: the flight
\* has the motor speed of the later header, its 8th field, and the
\* identifier that is its 2nd
C9_Witness ==
    /\ ParseDone
    /\ Len(fed) = 4
    /\ fed[1].data = Header /\ fed[2].data = Header9 /\ fed[3].data = GpsRecord
    /\ last_flight_data /= None
    /\ Val(last_flight_data).flight_header.parameters.motor_speed = 166
    /\ Val(last_flight_data).flight_header.flight_id = "F_3"

(***************************************************************************)
(* C11: a text containing "No flight records available" that is received   *)
(* while a download is in progress, before or after anything was           *)
(* collected, ends the download in that step as Failed, with a dialog that *)
(* tells "GPS not available" from "GPS detected but no positions recorded" *)
(* and from the plain answer; the buffer is left as it was and nothing is  *)
(* parsed, so the stored flight data stays as it was.                      *)
(***************************************************************************)
NoRecordsReason(text) ==
    IF Contains(text, "GPS not available") THEN "No Data: GPS module not detected"
    ELSE IF Contains(text, "GPS detected but no positions recorded")
         THEN "No Data: no flight data recorded yet"
    ELSE "No Data"

C11_NoRecordsFailsAtOnce ==
    [][ (Received /\ downloading_data
           /\ Contains(ReceivedData, "No flight records available")) =>
          /\ ~downloading_data'
          /\ DownloadState([downloading_data |-> downloading_data', dialog |-> dialog']) = "Failed"
          /\ dialog' = NoRecordsReason(ReceivedData)
          /\ flight_data_buffer' = flight_data_buffer
          /\ last_flight_data' = last_flight_data ]_vars

\* a header was collected, then the recorder said that it has no GPS: the
\* download failed with that reason and the buffer holds the header alone;
\* the plain answer to the next request failed it with the plain dialog
C11_Witness ==
    /\ Len(fed) = 3
    /\ fed[1].data = Header /\ fed[1].met = "Collecting"
    /\ fed[2].data = NoRecordsNoGps /\ fed[2].met = "Collecting"
    /\ fed[3].data = NoRecords /\ fed[3].met = "Collecting"
    /\ dialog = "No Data"
    /\ flight_data_buffer = ""
    /\ ~downloading_data
    /\ last_flight_data = None

(***************************************************************************)
(* C12: a download is timed out only by the timer of its own request, the  *)
(* last one registered, and so not before 10 s have passed since that      *)
(* request: a timer armed for an earlier request never ends it.            *)
(***************************************************************************)
C12_OwnTimerOnly ==
    [][ (downloading_data /\ ~downloading_data' /\ ~Received) =>
           /\ dialog' = "Timeout"
           /\ now >= Last(DownloadTimers).due
           /\ DownloadTimers' = SubSeq(DownloadTimers, 1, Len(DownloadTimers) - 1) ]_vars

(***************************************************************************)
(* C13: every key of the store holds the value of the most recent text     *)
(* that reported it with a number, and no value when no text did; a text   *)
(* that names a parameter without a number leaves the value as it was.     *)
(***************************************************************************)
\* what each text reports: text, key, value
Reports ==
    { << MotorRunTimeLine(0), "motor_run_time", 0 >>,
      << MotorRunTimeLine(12), "motor_run_time", 12 >>,
      << TotalFlightTimeLine, "total_flight_time", 90 >>,
      << MotorSpeedLine, "motor_speed", 150 >> }

LastReported(key) ==
    LET at == { i \in 1..Len(fed) : \E r \in Reports : r[1] = fed[i].data /\ r[2] = key }
    IN IF at = {} THEN None
       ELSE Some((CHOOSE r \in Reports : r[1] = fed[SetMax(at)].data /\ r[2] = key)[3])

C13_MostRecentValue ==
    \A key \in NumericKeys : current_flight_params[key] = LastReported(key)

\* a motor run time of 12 was reported, then one of 0, then a text named the
\* motor run time without a number: the store holds 0
C13_Witness ==
    /\ Len(fed) = 3
    /\ fed[1].data = MotorRunTimeLine(12)
    /\ fed[2].data = MotorRunTimeLine(0)
    /\ fed[3].data = MotorRunTimeNoNumber
    /\ current_flight_params.motor_run_time = Some(0)
    /\ current_flight_params.motor_speed = None

(***************************************************************************)
(* C14: in every store a key that a text has set reads differently from a  *)
(* key that no text has set yet, whatever the value: the first text that   *)
(* reports a key changes what the key reads, a report of 0 or false        *)
(* included.                                                               *)
(***************************************************************************)
\* what each text of the navigation report says: text, key
NavReports ==
    { << SatellitesLine(0), "satellites" >>, << SatellitesLine(7), "satellites" >>,
      << GpsFixLine("false"), "gps_fix" >>, << GpsFixLine("true"), "gps_fix" >> }

NavKeys == { "gps_fix", "satellites" }

ReportsKey(text, key) == \E r \in Reports \cup NavReports : r[1] = text /\ r[2] = key

\* what reading the key gives: the flight sequencer's store holds None for
\* a key without a value, nav_data holds a value under every key
Reading(key) ==
    IF key \in NavKeys THEN Some(nav_data[key]) ELSE current_flight_params[key]

FirstReport(key) ==
    /\ Received
    /\ ReportsKey(ReceivedData, key)
    /\ \A i \in 1..Len(fed) : ~ReportsKey(fed[i].data, key)

C14_SetDiffersFromUnset ==
    [][ \A key \in NumericKeys \cup NavKeys :
           FirstReport(key) => Reading(key)' /= Reading(key) ]_vars

(***************************************************************************)
(* C15: a force makes the forced kind the active one at once, inside the   *)
(* debounce window as well and without any text of that kind, and leaves   *)
(* the detector's timer as it was; the active kind changes only by a       *)
(* force, by the detection of a kind or by a reset, so a forced kind stays *)
(* until one of these replaces it.                                         *)
(***************************************************************************)
Forced == forces' /= forces
Detected == detections' /= detections
\* reset_detection() is called when the connection opens and when it closes
Reset == is_connected' /= is_connected

C15_ForceImmediateAndSticky ==
    [][ /\ Forced => /\ active_app' = Last(forces')
                     /\ last_detection_time' = last_detection_time
        /\ active_app' /= active_app =>
              \/ Forced
              \/ Detected /\ active_app' = Last(detections').app
              \/ Reset /\ active_app' = UNKNOWN ]_vars

\* the flight sequencer was detected, and within the debounce window the
\* user forced the GPS autopilot, of which no text had come: it is active
C15_Witness ==
    /\ forces = << GPS_AUTOPILOT >>
    /\ active_app = GPS_AUTOPILOT
    /\ Len(detections) = 1
    /\ detections[1].app = FLIGHT_SEQUENCER
    /\ last_detection_time = detections[1].time
    /\ now - last_detection_time < DebounceSeconds
    /\ \A i \in 1..Len(fed) : fed[i].data /= AppGpsAutopilot

(***************************************************************************)
(* C16: a reset leaves the active kind Unknown and the detector's timer    *)
(* cleared, and with the timer cleared a text that carries a signature is  *)
(* detected whatever the time since the detection before the reset.        *)
(***************************************************************************)
C16_ResetClearsDebounce ==
    [][ /\ Reset => (active_app' = UNKNOWN /\ last_detection_time' = 0)
        /\ (Received /\ last_detection_time = 0 /\ Facts(ReceivedData).app /= UNKNOWN) =>
              /\ detections' = Append(detections, [time |-> now,
                                                   app |-> Facts(ReceivedData).app])
              /\ active_app' = Facts(ReceivedData).app ]_vars

\* two detections less than 2 s apart: the connection was closed between
\* them, and the second text is the one the reader still held
C16_Witness ==
    /\ Len(fed) = 2
    /\ Len(detections) = 2
    /\ fed[1].data = AppFlightSequencer
    /\ fed[2].data = AppGpsAutopilot
    /\ detections[2].time - detections[1].time < DebounceSeconds
    /\ ~is_connected
    /\ active_app = GPS_AUTOPILOT

(***************************************************************************)
(* C17: once the connection is closed the active kind is Unknown, and it   *)
(* stays Unknown until a connection is open again.                         *)
(***************************************************************************)
C17_UnknownWhileDisconnected == ~is_connected => active_app = UNKNOWN

(***************************************************************************)
(* C18: every write to the port is the text of one send_line call, byte    *)
(* for byte, followed by one newline, and the writes stand in the order of *)
(* the calls: a call adds its write after those made before, which stay as *)
(* they are, whatever is read in between.                                  *)
(***************************************************************************)
\* the characters the bytes stand for
Characters == CharsOf(AsciiLow \o AsciiMid \o AsciiHigh) \cup {"\n", "\r"}
CodeOf == [c \in Characters |-> Ord(c)]

RECURSIVE Decoded(_)
Decoded(bytes) ==
    IF bytes = << >> THEN ""
    ELSE (CHOOSE c \in Characters : CodeOf[c] = bytes[1]) \o Decoded(Tail(bytes))

FirstLine(stream) == Split(stream, "\n")[1]

C19_CompleteLinesOnly ==
    [][ (Received /\ wire' /= wire) =>
           ReceivedData \in { FirstLine(wire), FirstLine(wire) \o "\n" } ]_vars

(***************************************************************************)
(* C20: at most one reader thread at a time is alive and reading from the  *)
(* port.                                                                   *)
(***************************************************************************)
\* the readers in their loop: all but the one that holds a text

C20_OneReader == ReadersReading <= 1


(***************************************************************************)
(* C21: when a read raises in the reader after the port was opened,        *)
(* is_connected becomes false and last_error describes the error.          *)
(***************************************************************************)
\* a reader ends, neither with a text routed nor in a disconnect()
ReaderFailed == readers' = readers - 1 /\ fed' = fed /\ connected' = connected

C21_ReadErrorCloses ==
    [][ReaderFailed => ~is_connected' /\ last_error' = Some("Monitor error")]_vars

(***************************************************************************)
(* C22: a connect() that fails returns False with last_error set,          *)
(* is_connected false, no port object kept and no reader started; a        *)
(* connect() that succeeds leaves is_connected true and last_error None.   *)
(***************************************************************************)
ConnectReturned == Len(returned') = Len(returned) + 1

C22_ConnectOutcome ==
    [][ConnectReturned =>
         IF Last(returned')
         THEN is_connected' /\ last_error' = None /\ connection' /= None
              /\ readers' = readers + 1
         ELSE ~is_connected' /\ last_error' = Some("Connection failed")
              /\ connection' = None /\ readers' = readers]_vars

\* a connection has failed to open and a later attempt has opened one
C22_Witness ==
    /\ Len(returned) >= 3
    /\ \E i \in 1..(Len(returned) - 1) : ~returned[i] /\ returned[i + 1]
    /\ is_connected
    /\ last_error = None


(***************************************************************************)
(* C23: when disconnect() closes the port the reader has ended, and after  *)
(* disconnect() has returned is_connected is false and no text is handed   *)
(* over any more.                                                          *)
(***************************************************************************)
Disconnected == connected /\ ~connected'

C23_ReaderEndsBeforeClose ==
    [][/\ Disconnected => readers' = 0 /\ ~is_connected' /\ connection' = None
       /\ ~is_connected => fed' = fed]_vars


(***************************************************************************)
(* C24: the texts are handed to the detector and the tabs one at a time,   *)
(* in the order of their arrival: while a reader has a text in hand no     *)
(* other text is routed, and no text is routed after a text of a later     *)
(* connection.                                                             *)
(***************************************************************************)
C24_OneAtATimeInOrder ==
    [][Received =>
         /\ held /= None => held' = None
         /\ \A i \in 1..Len(fed) : fed[i].conn <= Last(fed').conn]_vars


(***************************************************************************)
(* C26: the end of a download, by a parse that succeeds or fails, by the   *)
(* answer "No flight records available" or by the timeout, changes no key  *)
(* of the parameter store: the store is what the update by the text alone  *)
(* makes of it, and texts go on being taken afterwards.                    *)
(***************************************************************************)
Resolved == downloading_data /\ ~downloading_data'

C26_ResolutionLeavesStore ==
    [][/\ Received =>
            current_flight_params'
               = UpdateParameterStore(Tab, Facts(ReceivedData)).current_flight_params
       /\ Resolved /\ ~Received => current_flight_params' = current_flight_params]_vars

\* a download has ended with flight data and a later text has set the motor
\* run time
C26_Witness ==
    /\ last_flight_data /= None
    /\ Len(fed) = 4
    /\ fed[3].met = "Collecting"
    /\ fed[4].met = "Completed"
    /\ current_flight_params.motor_run_time = Some(12)


(***************************************************************************)
(* C27: while the active application is Unknown, and stays so when the     *)
(* detector has seen the text, the text changes no key of the parameter    *)
(* store.                                                                  *)
(***************************************************************************)
C27_UnknownUpdatesNothing ==
    [][Received /\ active_app' = UNKNOWN =>
         current_flight_params' = current_flight_params]_vars


(***************************************************************************)
(* C28: in the parse of the buffer a line that starts with "GPS," is put   *)
(* together with the raw line that follows it, nothing between them, and   *)
(* both are used up, exactly when it has fewer than 6 fields or its 5th or *)
(* 6th field is empty or "-"; otherwise it is kept as it is and the next   *)
(* line is looked at on its own; a line that does not start with "GPS,"    *)
(* is never put together with the line after it.                           *)
(***************************************************************************)
SplitAcrossLines(line) ==
    /\ StartsWith(line, "GPS,")
    /\ LET fields == Split(line, ",")
       IN \/ Len(fields) < 6
          \/ fields[5] = "" \/ fields[5] = "-"
          \/ fields[6] = "" \/ fields[6] = "-"

\* the lines the reassembly leaves, from raw line i on, as the claim has it
RECURSIVE Reassembled(_, _)
Reassembled(lines, i) ==
    IF i > Len(lines) THEN << >>
    ELSE IF IsSkipped(Strip(lines[i])) THEN Reassembled(lines, i + 1)
    ELSE IF SplitAcrossLines(Strip(lines[i])) /\ i < Len(lines)
         THEN << Strip(lines[i]) \o Strip(lines[i + 1]) >> \o Reassembled(lines, i + 2)
    ELSE << Strip(lines[i]) >> \o Reassembled(lines, i + 1)

C28_MergedWhenSplit ==
    ParseDone =>
        /\ ProcessedLines(flight_data_buffer)
              = Reassembled(BufferLines(flight_data_buffer), 1)
        /\ ParsedAs(flight_data_buffer)

\* a record whose longitude was cut after its sign was put together again,
\* and the complete record after it was kept: both are in the flight
C28_Witness ==
    /\ ParseDone
    /\ Len(fed) = 4
    /\ fed[1].data = Header
    /\ fed[2].data = SplitLongitude(GpsRecord, 1)
    /\ fed[3].data = GpsRecordAlt
    /\ ProcessedLines(flight_data_buffer) = << Header, GpsRecord, GpsRecordAlt >>
    /\ last_flight_data /= None
    /\ Len(Val(last_flight_data).position_records) = 2
    /\ Val(last_flight_data).position_records[1].longitude = PyFloat(LongitudeOf(GpsRecord))


(***************************************************************************)
(* C29: of the lines left by the reassembly, each that starts with "GPS,"  *)
(* and has 7 fields or more gives a fix whose altitude is its 7th field,   *)
(* each that has exactly 6 fields gives a fix of altitude 0.0, and one     *)
(* whose numeric fields do not convert gives nothing and changes nothing   *)
(* else: the fixes are those of the other lines, in their order, and the   *)
(* parse does not fail because of it.                                      *)
(***************************************************************************)
NumericFieldsParse(fields) ==
    /\ IsInt(fields[2]) /\ IsInt(fields[3])
    /\ IsFloat(fields[5]) /\ IsFloat(fields[6])
    /\ Len(fields) >= 7 => IsFloat(fields[7])

FixOf(fields) ==
    [timestamp_ms |-> PyInt(fields[2]),
     flight_state |-> PyInt(fields[3]),
     state_name |-> fields[4],
     latitude |-> PyFloat(fields[5]),
     longitude |-> PyFloat(fields[6]),
     altitude |-> IF Len(fields) = 6 THEN FloatZero ELSE PyFloat(fields[7])]

YieldsFix(line) ==
    /\ StartsWith(line, "GPS,")
    /\ Len(Split(line, ",")) >= 6
    /\ NumericFieldsParse(Split(line, ","))

FixesOf(lines) ==
    LET fixed == SelectSeq(lines, YieldsFix)
    IN [k \in 1..Len(fixed) |-> FixOf(Split(fixed[k], ","))]

C29_FixPerFinalLine ==
    ParseDone =>
        LET lines == ProcessedLines(flight_data_buffer)
            headers == HeaderLines(lines)
        IN /\ dialog \in {"Save Flight Data", "Parse Error", "No valid flight data"}
           /\ dialog = "Parse Error"
                 => \E k \in headers : ~AllIntegers(HeaderFields(lines[k]))
           /\ dialog = "Save Flight Data"
                 => /\ last_flight_data /= None
                    /\ Val(last_flight_data).position_records = FixesOf(lines)
           /\ dialog = "No valid flight data"
                 => headers = {} \/ FixesOf(lines) = << >>

\* a record with an altitude, a record whose flight state is no integer and
\* a record of 6 fields: the flight holds the first with its altitude and
\* the third with altitude 0.0
C29_Witness ==
    /\ ParseDone
    /\ Len(fed) = 4
    /\ fed[1].data = Header
    /\ fed[2].data = Unconvertible
    /\ fed[3].data = GpsRecord
    /\ dialog = "Save Flight Data"
    /\ last_flight_data /= None
    /\ Len(Val(last_flight_data).position_records) = 1
    /\ Val(last_flight_data).position_records[1].altitude = FloatZero
    /\ Val(last_flight_data).position_records[1].timestamp_ms = 990

\* the 7th field is the altitude of the fix
C29_WitnessAltitude ==
    /\ ParseDone
    /\ Len(fed) = 4
    /\ fed[1].data = GpsRecordAlt
    /\ fed[2].data = Header
    /\ fed[3].data = Unconvertible
    /\ dialog = "Save Flight Data"
    /\ last_flight_data /= None
    /\ Val(last_flight_data).position_records = << FixOf(Split(GpsRecordAlt, ",")) >>
    /\ Val(last_flight_data).position_records[1].altitude = PyFloat("12.5")


(***************************************************************************)
(* C30: a parse ends without a flight only if the reassembled buffer has   *)
(* no HEADER line that gives a header or no GPS line that gives a fix;     *)
(* when it has one of each the flight is stored with every fix, whatever   *)
(* else the buffer holds.                                                  *)
(***************************************************************************)
ValidHeader(line) ==
    /\ StartsWith(line, "HEADER,")
    /\ Len(HeaderFields(line)) >= 8
    /\ AllIntegers(HeaderFields(line))

C30_CompletedWhenRecovered ==
    ParseDone =>
        LET lines == ProcessedLines(flight_data_buffer)
        IN ( /\ \E k \in 1..Len(lines) : ValidHeader(lines[k])
             /\ \E k \in 1..Len(lines) : YieldsFix(lines[k]) )
              => /\ dialog = "Save Flight Data"
                 /\ last_flight_data /= None
                 /\ Val(last_flight_data).position_records = FixesOf(lines)


(***************************************************************************)
(* C25: what get_parameters() returned reads the same after every later    *)
(* process_serial_data() and clear_parameters(), the dict of test results  *)
(* in it included, and a change the caller makes to it, the dict of test   *)
(* results included, leaves what the monitor holds as it was.              *)
(***************************************************************************)
SnapshotContents == Contents(Val(snapshot), param_monitor.objects)
StoreContents == Contents(param_monitor.current_parameters, param_monitor.objects)

C25_SnapshotIsACopy ==
    [][ calls' /= calls =>
          /\ ( /\ Last(calls') \in {"process_serial_data", "clear_parameters"}
               /\ snapshot /= None )
                => SnapshotContents' = SnapshotContents
          /\ Last(calls') = "snapshot changed" => StoreContents' = StoreContents ]_vars


(***************************************************************************)
(* C31: a line that changes the kind is applied to the store after the     *)
(* store has been reset, under the new kind: after the step the store      *)
(* holds what that line gives on an empty store, no value from before the  *)
(* change and every parameter the line itself carries.                     *)
(***************************************************************************)
\* what a line gives on an empty store under a kind
AppliedUnder(kind, line) ==
    LET applied == CheckForParameters([InitialMonitor EXCEPT !.app_type = kind], line)
    IN Contents(applied.current_parameters, applied.objects)

\* the text is one complete line
OneLine(data) == Len(Split(data, "\n")) = 2 /\ Split(data, "\n")[2] = ""

C31_DetectingLineApplied ==
    [][ \A data \in MonitorTexts :
          ( /\ calls' = Append(calls, "process_serial_data")
            /\ param_monitor.buffer = ""
            /\ OneLine(data)
            /\ param_monitor' = ProcessSerialData(param_monitor, data)
            /\ param_monitor'.app_type /= param_monitor.app_type )
           => StoreContents' = AppliedUnder(param_monitor'.app_type, Strip(data)) ]_vars

\* the same in the multi-tab GUI, for the numeric keys of the flight
\* sequencer's store: after a text that changes the kind, a key has a value
\* only if that text reports it
C31_StoreResetOnKindChange ==
    [][ (Received /\ active_app' /= active_app)
           => \A key \in NumericKeys :
                 current_flight_params'[key] /= None => ReportsKey(ReceivedData, key) ]_vars


KindsOf ==
    [text \in OverlapLines \cup { AppGpsAutopilot } |->
        { kind \in {FLIGHT_SEQUENCER, GPS_AUTOPILOT, DEVICE_TEST} : AnyPattern(kind, text) }]

KindsMatching(text) == KindsOf[text]

FirstInTableOrder(kinds) ==
    IF FLIGHT_SEQUENCER \in kinds THEN FLIGHT_SEQUENCER
    ELSE IF GPS_AUTOPILOT \in kinds THEN GPS_AUTOPILOT
    ELSE DEVICE_TEST

C33_FirstKindInTableOrder ==
    [][ Received =>
          /\ Detected =>
                /\ KindsMatching(ReceivedData) /= {}
                /\ Last(detections').app = FirstInTableOrder(KindsMatching(ReceivedData))
          /\ ( /\ KindsMatching(ReceivedData) /= {}
               /\ now - last_detection_time >= DebounceSeconds ) => Detected ]_vars

\* a text with signatures of all three kinds was reported as the flight
\* sequencer, and later one with signatures of the GPS autopilot and of the
\* device tests as the GPS autopilot
C33_Witness ==
    /\ Len(fed) = 2
    /\ fed[1].data = AllThree
    /\ fed[2].data = GpsAndTest
    /\ KindsMatching(AllThree) = {FLIGHT_SEQUENCER, GPS_AUTOPILOT, DEVICE_TEST}
    /\ KindsMatching(GpsAndTest) = {GPS_AUTOPILOT, DEVICE_TEST}
    /\ Len(detections) = 2
    /\ detections[1].app = FLIGHT_SEQUENCER
    /\ detections[2].app = GPS_AUTOPILOT
    /\ active_app = GPS_AUTOPILOT


(***************************************************************************)
(* C34: the phase of a text is the one its "Current Phase: X" names; if    *)
(* it has none, the phase of the first of the state transition messages,   *)
(* in the order READY, ARMED, MOTOR_SPOOL, MOTOR_RUN, GLIDE, DT_DEPLOY,    *)
(* DT_DEPLOYED, LANDING, that the text carries, whatever later ones it     *)
(* carries too.  That phase is stored when it differs from the phase       *)
(* recorded last; without one the phase stays.                             *)
(***************************************************************************)
PhasePriority ==
    << "READY", "ARMED", "MOTOR_SPOOL", "MOTOR_RUN", "GLIDE", "DT_DEPLOY", "DT_DEPLOYED",
       "LANDING" >>

\* the phases whose state transition message the text carries
MarkersIn(text) ==
    { PhaseMarkers[k].phase : k \in { j \in 1..Len(PhaseMarkers) : Matches(PhaseMarkers[j].re, text) } }

PhaseNamed(text) ==
    IF Search(rePhase, text).ok
    THEN Some(Upper(Group(Search(rePhase, text), text, 1)))
    ELSE IF MarkersIn(text) = {} THEN None
    ELSE Some(PhasePriority[SetMin({ k \in 1..Len(PhasePriority) :
                                        PhasePriority[k] \in MarkersIn(text) })])

PhaseOf == [text \in PhaseLines |-> PhaseNamed(text)]

C34_ExplicitPhaseThenMarkers ==
    [][ Received =>
          IF PhaseOf[ReceivedData] /= None /\ PhaseOf[ReceivedData] /= last_recorded_phase
          THEN /\ current_flight_params'.current_phase = Val(PhaseOf[ReceivedData])
               /\ last_recorded_phase' = PhaseOf[ReceivedData]
          ELSE /\ current_flight_params'.current_phase = current_flight_params.current_phase
               /\ last_recorded_phase' = last_recorded_phase ]_vars

\* the text that names GLIDE and carries the message of ARMED gave GLIDE,
\* the text with the messages of MOTOR_RUN and READY gave READY, and the
\* text with the messages of ARMED and MOTOR_SPOOL gave ARMED
C34_Witness ==
    /\ Len(fed) = 3
    /\ fed[1].data = PhaseAndMarker
    /\ fed[2].data = RunAndReady
    /\ fed[3].data = ArmedAndSpool
    /\ MarkersIn(ArmedAndSpool) = {"ARMED", "MOTOR_SPOOL"}
    /\ MarkersIn(RunAndReady) = {"READY", "MOTOR_RUN"}
    /\ PhaseOf[PhaseAndMarker] = Some("GLIDE")
    /\ current_flight_params.current_phase = "ARMED"
    /\ Len(PhaseEntries(flight_history)) = 3


(***************************************************************************)
(* C35: a request empties the buffer; while the download is in progress a  *)
(* received text that does not hold "No flight records available" is put   *)
(* at the end of the buffer with one newline after it, and nothing else    *)
(* changes the buffer: at the end marker the buffer is the texts received  *)
(* since the last request, in their order.                                 *)
(***************************************************************************)
RequestMade == Len(DownloadTimers') > Len(DownloadTimers)

C35_BufferIsTheLinesReceived ==
    [][ /\ RequestMade => flight_data_buffer' = "" /\ downloading_data'
        /\ (Received /\ downloading_data) =>
              flight_data_buffer' =
                 IF Contains(ReceivedData, "No flight records available")
                 THEN flight_data_buffer
                 ELSE flight_data_buffer \o ReceivedData \o "\n"
        /\ flight_data_buffer' /= flight_data_buffer =>
              RequestMade \/ (Received /\ downloading_data) ]_vars

\* a first download collected a header and the end marker; the user asked
\* again, and a record and the end marker came: the buffer parsed holds the
\* two texts of the second download and not the header
C35_Witness ==
    /\ Len(fed) = 4
    /\ fed[1].data = Header /\ fed[1].met = "Collecting"
    /\ fed[2].data = EndMarker /\ fed[2].met = "Collecting"
    /\ fed[3].data = GpsRecord /\ fed[3].met = "Collecting"
    /\ fed[4].data = EndMarker /\ fed[4].met = "Collecting"
    /\ flight_data_buffer = GpsRecord \o "\n" \o EndMarker \o "\n"
    /\ ~downloading_data
    /\ dialog = "No valid flight data"

(***************************************************************************)
(* C36: while a reader is inside the handling of a text, no step of        *)
(* another thread (a callback of after(), an action of the user, the       *)
(* handling of a disconnection) writes the parameter store, the download   *)
(* buffer or the flag of the download in progress.                         *)
(***************************************************************************)
C36_OneProcessingPath ==
    [][ (responding /= None /\ responding' = responding) =>
           UNCHANGED << current_flight_params, flight_data_buffer, downloading_data >> ]_vars

(***************************************************************************)
(* C38: a download is resolved once.  Every step that shows the dialog of  *)
(* an outcome (timed out, completed, failed, no records) ends a download   *)
(* that was in progress; none is shown for a download already resolved.    *)
(***************************************************************************)
OutcomeShown == dialog' /= "" /\ (dialog' /= dialog \/ downloading_data /= downloading_data')

C38_ResolvedOnce ==
    [][ OutcomeShown => downloading_data /\ ~downloading_data' ]_vars


(***************************************************************************)
(* C37: for the buffer of every download that was parsed,                  *)
(* process_test_data returns the header _process_downloaded_data recovers  *)
(* and the same records in the same order, each compared by timestamp,     *)
(* flight state, state name, latitude and longitude; the one raises where  *)
(* the other does.                                                         *)
(***************************************************************************)
WithoutAltitude(record) ==
    [timestamp_ms |-> record.timestamp_ms,
     flight_state |-> record.flight_state,
     state_name |-> record.state_name,
     latitude |-> record.latitude,
     longitude |-> record.longitude]

C37_SameAsTestScript ==
    ParseDone =>
       LET gui == ParseRecords(flight_data_buffer)
           script == ProcessTestData(flight_data_buffer)
       IN /\ gui.raised = script.raised
          /\ ~gui.raised =>
                /\ gui.flight_header = script.flight_header
                /\ [k \in 1..Len(gui.gps_records) |-> WithoutAltitude(gui.gps_records[k])]
                      = script.gps_records
          /\ dialog = "Save Flight Data" =>
                /\ Some(Val(last_flight_data).flight_header) = script.flight_header
                /\ Len(Val(last_flight_data).position_records) = Len(script.gps_records)


HandlerRaised == errors' /= errors

C40_HandlerErrorContained ==
    [][ HandlerRaised =>
           /\ Received /\ Last(errors').data = ReceivedData
           /\ nav_data' = ParseNavigationData(nav_data, Facts(ReceivedData))
           /\ readers' = readers /\ held' = held
           /\ is_connected' /\ last_error' = last_error ]_vars

\* the flight sequencer's handler raised on the report of 7 satellites,
\* which the GPS autopilot's handler has taken; the reader then delivered
\* the motor run time, which the flight sequencer's handler has stored
C40_Witness ==
    /\ Len(fed) = 2 /\ Len(errors) = 1
    /\ fed[1].data = SatellitesLine(7) /\ errors[1].data = SatellitesLine(7)
    /\ nav_data.satellites = 7
    /\ fed[2].data = MotorRunTimeLine(12)
    /\ current_flight_params.motor_run_time = Some(12)

====
